---- MODULE Spec2Model ----
(***************************************************************************)
(* A model of liturgical_display: the scripture-reference resolver of      *)
(* services/scriptura_service.py (ScripturaService), the artwork           *)
(* endpoints of web_server.py, one run of main.py with updater, calendar   *)
(* and display, and the caches of the reflection, Wikipedia and data       *)
(* services.  Each component has its own specification; the others stay    *)
(* as constructed.                                                         *)
(*                                                                         *)
(* Python strings are modelled as sequences of one-character strings, so   *)
(* that strip, split, startswith, int() and str() are computed as Python   *)
(* computes them.  The fixed markup literals of the formatter and the      *)
(* literal "[Reading: " are single elements of such a sequence.            *)
(***************************************************************************)
EXTENDS Integers, Sequences, FiniteSets, TLC

\* ------------------------------------------------------------------------
\* Python string primitives
\* ------------------------------------------------------------------------

Digits == {"0", "1", "2", "3", "4", "5", "6", "7", "8", "9"}

\* str.isspace for one character (the references and texts modelled hold
\* spaces as their only whitespace)
IsSpace(c) == c = " "

\* c in s
Contains(s, c) == \E i \in 1..Len(s) : s[i] = c

\* s.count(c)
Count(s, c) == Cardinality({i \in 1..Len(s) : s[i] = c})

\* s.startswith(p)
StartsWith(s, p) == Len(p) <= Len(s) /\ SubSeq(s, 1, Len(p)) = p

\* s[n:]
DropFirst(s, n) == SubSeq(s, n + 1, Len(s))

\* s.strip()
Strip(s) ==
    LET nonsp == {i \in 1..Len(s) : ~IsSpace(s[i])}
    IN  IF nonsp = {} THEN <<>>
        ELSE LET lo == CHOOSE i \in nonsp : \A j \in nonsp : i <= j
                 hi == CHOOSE i \in nonsp : \A j \in nonsp : j <= i
             IN  SubSeq(s, lo, hi)

\* index of the first c in s, 0 when absent
FirstIndex(s, c) ==
    IF Contains(s, c)
    THEN CHOOSE i \in 1..Len(s) : s[i] = c /\ \A j \in 1..(i - 1) : s[j] # c
    ELSE 0

\* index of the last c in s, 0 when absent
LastIndex(s, c) ==
    IF Contains(s, c)
    THEN CHOOSE i \in 1..Len(s) : s[i] = c /\ \A j \in (i + 1)..Len(s) : s[j] # c
    ELSE 0

\* s.split(c): the list of the pieces between every occurrence of c
RECURSIVE Split(_, _)
Split(s, c) ==
    LET i == FirstIndex(s, c)
    IN  IF i = 0 THEN <<s>>
        ELSE <<SubSeq(s, 1, i - 1)>> \o Split(DropFirst(s, i), c)

\* s.split(c, 1): at most two pieces, cut at the first c
SplitOnce(s, c) ==
    LET i == FirstIndex(s, c)
    IN  IF i = 0 THEN <<s>> ELSE <<SubSeq(s, 1, i - 1), DropFirst(s, i)>>

\* s.rsplit(c, 1): at most two pieces, cut at the last c
RSplitOnce(s, c) ==
    LET i == LastIndex(s, c)
    IN  IF i = 0 THEN <<s>> ELSE <<SubSeq(s, 1, i - 1), DropFirst(s, i)>>

\* ''.join(c for c in s if c.isdigit())
RECURSIVE OnlyDigits(_)
OnlyDigits(s) ==
    IF s = <<>> THEN <<>>
    ELSE (IF Head(s) \in Digits THEN <<Head(s)>> ELSE <<>>) \o OnlyDigits(Tail(s))

\* s.isdigit()
IsDigitStr(s) == Len(s) > 0 /\ \A i \in 1..Len(s) : s[i] \in Digits

DigitVal(c) ==
    CASE c = "0" -> 0 [] c = "1" -> 1 [] c = "2" -> 2 [] c = "3" -> 3
      [] c = "4" -> 4 [] c = "5" -> 5 [] c = "6" -> 6 [] c = "7" -> 7
      [] c = "8" -> 8 [] c = "9" -> 9

DigitChar(d) ==
    CASE d = 0 -> "0" [] d = 1 -> "1" [] d = 2 -> "2" [] d = 3 -> "3"
      [] d = 4 -> "4" [] d = 5 -> "5" [] d = 6 -> "6" [] d = 7 -> "7"
      [] d = 8 -> "8" [] d = 9 -> "9"

\* int(s) raises ValueError unless s, stripped, is a non-empty digit string
\* (no sign or underscore occurs in the strings modelled)
IntRaises(s) == ~IsDigitStr(Strip(s))

\* the value of a digit string
RECURSIVE DigitsValue(_)
DigitsValue(s) ==
    IF s = <<>> THEN 0
    ELSE DigitsValue(SubSeq(s, 1, Len(s) - 1)) * 10 + DigitVal(s[Len(s)])

\* int(s) where it does not raise
IntOf(s) == DigitsValue(Strip(s))

\* str(n) for n >= 0
RECURSIVE StrOf(_)
StrOf(n) ==
    IF n < 10 THEN <<DigitChar(n)>>
    ELSE StrOf(n \div 10) \o <<DigitChar(n % 10)>>

\* sep.join(list)
RECURSIVE Join(_, _)
Join(list, sep) ==
    IF list = <<>> THEN <<>>
    ELSE IF Len(list) = 1 THEN list[1]
    ELSE list[1] \o sep \o Join(Tail(list), sep)

\* s.split(): the whitespace-separated words of s, none empty
RECURSIVE Words(_)
Words(s) ==
    LET t == Strip(s)
        i == FirstIndex(t, " ")
    IN  IF t = <<>> THEN <<>>
        ELSE IF i = 0 THEN <<t>>
        ELSE <<SubSeq(t, 1, i - 1)>> \o Words(DropFirst(t, i))

\* ------------------------------------------------------------------------
\* Literals of the source
\* ------------------------------------------------------------------------

ReadingOpen == "[Reading: "
ReadingClose == "]"
ParagraphOpen == "<p class=\"reading-paragraph\">"
ParagraphClose == "</p>"
ParagraphBreak == "</p><p class=\"reading-paragraph\">"
VerseSpanOpen == "<span class=\"verse\">"
NowrapOpen == "<span class=\"nowrap\"><span class=\"verse-number\">"
SpanClose == "</span>"
\* the pilcrow character U+00B6, one element of a text
Pilcrow == "PILCROW"

sJohn == <<"J", "o", "h", "n">>
s1John == <<"1", " ", "J", "o", "h", "n">>
sPsalm == <<"P", "s", "a", "l", "m">>
sPsalms == <<"P", "s", "a", "l", "m", "s">>
sPs == <<"P", "s">>
sPSALM == <<"P", "S", "A", "L", "M">>
sPSALMS == <<"P", "S", "A", "L", "M", "S">>
sOne == <<"1">>
sEnd == <<"e", "n", "d">>
sOr == <<" ", "o", "r", " ">>

pFirstReading ==
    <<"F", "i", "r", "s", "t", " ", "R", "e", "a", "d", "i", "n", "g", ":">>
pGospel == <<"G", "o", "s", "p", "e", "l", ":">>
pPsalm == <<"P", "s", "a", "l", "m", ":">>

\* f"[Reading: {reference}]"
Sentinel(reference) == <<ReadingOpen>> \o reference \o <<ReadingClose>>

\* ------------------------------------------------------------------------
\* ScripturaService: cleaning, normalising and parsing a reference
\* ------------------------------------------------------------------------

prefixes_to_remove ==
    <<pFirstReading,
      <<"S", "e", "c", "o", "n", "d", " ", "R", "e", "a", "d", "i", "n", "g", ":">>,
      pGospel,
      pPsalm,
      <<"O", "l", "d", " ", "T", "e", "s", "t", "a", "m", "e", "n", "t", ":">>,
      <<"N", "e", "w", " ", "T", "e", "s", "t", "a", "m", "e", "n", "t", ":">>,
      <<"E", "p", "i", "s", "t", "l", "e", ":">>>>

\* the loop of _clean_reference: every prefix of the list is tried once, in
\* list order, against what the earlier iterations left
RECURSIVE StripPrefixes(_, _)
StripPrefixes(cleaned, i) ==
    IF i > Len(prefixes_to_remove) THEN cleaned
    ELSE IF StartsWith(cleaned, prefixes_to_remove[i])
         THEN StripPrefixes(Strip(DropFirst(cleaned, Len(prefixes_to_remove[i]))), i + 1)
         ELSE StripPrefixes(cleaned, i + 1)

_clean_reference(reference) == StripPrefixes(Strip(reference), 1)

_normalize_book_name(book) ==
    IF book \in {sPsalm, sPs, sPSALM, sPSALMS} THEN sPsalms ELSE book

_clean_verse_suffix(verse_part) ==
    IF Contains(verse_part, "-")
    THEN LET se == SplitOnce(verse_part, "-")
         IN  se[1] \o <<"-">> \o OnlyDigits(se[2])
    ELSE OnlyDigits(verse_part)

\* BookChapter cutting at the first space instead of the last
BookChapterFirstSpace(book_chapter) ==
    LET bc == SplitOnce(book_chapter, " ")
    IN  IF Len(bc) = 2 THEN <<Strip(bc[1]), Strip(bc[2])>>
        ELSE <<book_chapter, sOne>>

\* "Book Chapter" -> <<book, chapter>> by rsplit(' ', 1); chapter "1" when
\* there is no space
BookChapter(book_chapter) ==
    LET bc == RSplitOnce(book_chapter, " ")
    IN  IF Len(bc) = 2 THEN <<Strip(bc[1]), Strip(bc[2])>>
        ELSE <<book_chapter, sOne>>

\* _parse_reference handing back a bare book name as written, without the
\* synonym lookup
ParseReferenceBareAsWritten(reference) ==
    IF Contains(reference, ",") THEN [complex |-> TRUE]
    ELSE IF Contains(reference, "-") /\ Contains(reference, ":")
            /\ Count(reference, ":") >= 2
    THEN [complex |-> TRUE]
    ELSE IF Contains(reference, ":") /\ Len(Split(reference, ":")) = 2
    THEN LET parts == Split(reference, ":")
             bc == BookChapter(Strip(parts[1]))
         IN  [complex |-> FALSE,
              book |-> _normalize_book_name(bc[1]),
              chapter |-> bc[2],
              verse |-> _clean_verse_suffix(Strip(parts[2]))]
    ELSE [complex |-> FALSE,
          book |-> Strip(reference),
          chapter |-> sOne,
          verse |-> sOne]

\* _parse_reference: [complex |-> TRUE] stands for the None it returns for
\* a reference left to _handle_complex_reference.  Nothing in its try block
\* raises for a string, so its "Genesis 1:1" fallback is never returned.
_parse_reference(reference) ==
    IF Contains(reference, ",") THEN [complex |-> TRUE]
    ELSE IF Contains(reference, "-") /\ Contains(reference, ":")
            /\ Count(reference, ":") >= 2
    THEN [complex |-> TRUE]
    ELSE IF Contains(reference, ":") /\ Len(Split(reference, ":")) = 2
    THEN LET parts == Split(reference, ":")
             bc == BookChapter(Strip(parts[1]))
         IN  [complex |-> FALSE,
              book |-> _normalize_book_name(bc[1]),
              chapter |-> bc[2],
              verse |-> _clean_verse_suffix(Strip(parts[2]))]
    ELSE [complex |-> FALSE,
          book |-> _normalize_book_name(Strip(reference)),
          chapter |-> sOne,
          verse |-> sOne]

\* ------------------------------------------------------------------------
\* The provider's answers and the chapter fetch
\* ------------------------------------------------------------------------

\* JSON values of a 'verses' mapping: a string, a number, or (what dict.get
\* returns for an absent key) None
JsonStr(s) == [type |-> "str", s |-> s]
JsonNumber == [type |-> "number", s |-> <<>>]
JsonNone == [type |-> "null", s |-> <<>>]

\* Python truthiness of such a value ("if verse_text:")
Truthy(v) == (v.type = "str" /\ v.s # <<>>) \/ v.type = "number"

\* What response.json() can hand back: {} , a non-empty object without a
\* 'verses' member, or an object with a 'verses' mapping
EmptyDict == [kind |-> "empty", verses |-> <<>>]
NoVersesDict == [kind |-> "noverses", verses |-> <<>>]
ChapterDict(verses) == [kind |-> "chapter", verses |-> verses]

\* "if not chapter_data"
Falsy(chapter_data) == chapter_data.kind = "empty"

\* chapter_data['verses'] raises KeyError
VersesRaises(chapter_data) == chapter_data.kind # "chapter"

\* chapter_data['verses'].get(key)
VerseGet(chapter_data, key) ==
    IF key \in DOMAIN chapter_data.verses THEN chapter_data.verses[key]
    ELSE JsonNone

\* _get_chapter_data: the JSON body on success; {} when requests.get or
\* raise_for_status raises (connection error, timeout, HTTP error status).
\* A (book, chapter) the provider does not know is an HTTP error.
_get_chapter_data(prov, book, chapter) ==
    IF <<book, chapter>> \in DOMAIN prov
    THEN IF prov[<<book, chapter>>].status = "ok"
         THEN prov[<<book, chapter>>].body
         ELSE EmptyDict
    ELSE EmptyDict

\* [int(v) for v in chapter_data['verses'].keys() if v.isdigit()]
verse_numbers(chapter_data) ==
    {IntOf(k) : k \in {v \in DOMAIN chapter_data.verses : IsDigitStr(v)}}

SetMax(S) == CHOOSE m \in S : \A n \in S : n <= m

\* RangeVerses ending its loop at the first verse without a truthy text
RECURSIVE RangeVersesStopping(_, _, _)
RangeVersesStopping(chapter_data, lo, hi) ==
    IF lo > hi THEN <<>>
    ELSE LET verse_text == VerseGet(chapter_data, StrOf(lo))
         IN  IF Truthy(verse_text)
             THEN <<[verse |-> StrOf(lo), text |-> verse_text]>>
                  \o RangeVersesStopping(chapter_data, lo + 1, hi)
             ELSE <<>>

\* for verse_num in range(lo, hi + 1): append the verse when its text is
\* truthy
RECURSIVE RangeVerses(_, _, _)
RangeVerses(chapter_data, lo, hi) ==
    IF lo > hi THEN <<>>
    ELSE LET verse_text == VerseGet(chapter_data, StrOf(lo))
         IN  (IF Truthy(verse_text)
              THEN <<[verse |-> StrOf(lo), text |-> verse_text]>>
              ELSE <<>>)
             \o RangeVerses(chapter_data, lo + 1, hi)

\* the single-verse branch: chapter_data['verses'].get(verse)
OneVerse(chapter_data, verse) ==
    LET verse_text == VerseGet(chapter_data, verse)
    IN  IF Truthy(verse_text)
        THEN <<[verse |-> verse, text |-> verse_text]>>
        ELSE <<>>

\* ------------------------------------------------------------------------
\* The formatter
\* ------------------------------------------------------------------------

\* _wrap_verse_with_nowrap keeping the first three words with the number
WrapFirstThree(verse_number, text) ==
    LET words == Words(text)
    IN  IF Len(words) >= 3
        THEN <<NowrapOpen>> \o verse_number \o <<SpanClose, " ">>
             \o Join(SubSeq(words, 1, 3), <<" ">>) \o <<SpanClose, " ">>
             \o Join(SubSeq(words, 4, Len(words)), <<" ">>)
        ELSE <<NowrapOpen>> \o verse_number \o <<SpanClose, " ">>
             \o text \o <<SpanClose>>

_wrap_verse_with_nowrap(verse_number, text) ==
    LET words == Words(text)
    IN  IF Len(words) >= 2
        THEN <<NowrapOpen>> \o verse_number \o <<SpanClose, " ">>
             \o Join(SubSeq(words, 1, 2), <<" ">>) \o <<SpanClose, " ">>
             \o Join(SubSeq(words, 3, Len(words)), <<" ">>)
        ELSE <<NowrapOpen>> \o verse_number \o <<SpanClose, " ">>
             \o text \o <<SpanClose>>

\* f'<span class="verse">{wrapped_text}</span>'
VerseSpan(verse_number, text) ==
    <<VerseSpanOpen>> \o _wrap_verse_with_nowrap(verse_number, text) \o <<SpanClose>>

\* [part.strip() for part in parts if part.strip()]
RECURSIVE NonEmptyParts(_)
NonEmptyParts(parts) ==
    IF parts = <<>> THEN <<>>
    ELSE (IF Strip(Head(parts)) # <<>> THEN <<Strip(Head(parts))>> ELSE <<>>)
         \o NonEmptyParts(Tail(parts))

\* the html_parts one pilcrow-split verse appends, from its i-th part on
RECURSIVE PilcrowParts(_, _, _)
PilcrowParts(verse_number, non_empty_parts, i) ==
    IF i > Len(non_empty_parts) THEN <<>>
    ELSE (IF i = 1
          THEN VerseSpan(verse_number, non_empty_parts[i])
          ELSE <<ParagraphBreak>> \o VerseSpan(verse_number, non_empty_parts[i]))
         \o PilcrowParts(verse_number, non_empty_parts, i + 1)

\* the html_parts one verse appends (the body of the formatter's loop);
\* the text is a string here
FormatVerse(verse_data) ==
    LET clean_text == Strip(verse_data.text.s)
    IN  IF Contains(clean_text, Pilcrow)
        THEN PilcrowParts(verse_data.verse,
                          NonEmptyParts(Split(clean_text, Pilcrow)), 1)
        ELSE VerseSpan(verse_data.verse, clean_text)

RECURSIVE FormatVerses(_)
FormatVerses(verses) ==
    IF verses = <<>> THEN <<>>
    ELSE FormatVerse(Head(verses)) \o FormatVerses(Tail(verses))

\* verse_text.strip() raises AttributeError when a verse text is not a string
FormatRaises(verses) == \E i \in 1..Len(verses) : verses[i].text.type # "str"

\* _format_reading_paragraph where it does not raise
_format_reading_paragraph(verses) ==
    IF verses = <<>> THEN <<>>
    ELSE <<ParagraphOpen>> \o FormatVerses(verses) \o <<ParagraphClose>>

\* ------------------------------------------------------------------------
\* Resolution.  A handler's result is [text, fetches]: the string returned
\* and the (book, chapter) pairs _get_chapter_data was called with, in call
\* order.  An intermediate result with raised = TRUE stands for an exception
\* on its way to the handler's "except Exception".
\* ------------------------------------------------------------------------

Raised == [raised |-> TRUE, verses |-> <<>>]
Got(verses) == [raised |-> FALSE, verses |-> verses]

\* str.lower for one character of an "end" token
LowerChar(c) ==
    CASE c = "E" -> "e" [] c = "N" -> "n" [] c = "D" -> "d" [] OTHER -> c

Lower(s) == [i \in 1..Len(s) |-> LowerChar(s[i])]

\* the verses of "A-B" out of one chapter, as the range loops take them:
\* 'verses' is looked up only inside the loop body
LoopVerses(chapter_data, lo, hi) ==
    IF lo > hi THEN Got(<<>>)
    ELSE IF VersesRaises(chapter_data) THEN Raised
    ELSE Got(RangeVerses(chapter_data, lo, hi))

\* _get_reading_text, lines 91-120: the verses of a parsed verse_range out
\* of the fetched chapter
SingleChapterVerses(chapter_data, verse_range) ==
    IF Contains(verse_range, "-")
    THEN LET se == SplitOnce(verse_range, "-")
         IN  IF IntRaises(se[1]) THEN Raised
             ELSE IF Lower(Strip(se[2])) = sEnd
             THEN IF VersesRaises(chapter_data) THEN Raised
                  ELSE LoopVerses(chapter_data, IntOf(se[1]),
                                  IF verse_numbers(chapter_data) # {}
                                  THEN SetMax(verse_numbers(chapter_data))
                                  ELSE IntOf(se[1]))
             ELSE IF IntRaises(se[2]) THEN Raised
             ELSE LoopVerses(chapter_data, IntOf(se[1]), IntOf(se[2]))
    ELSE IF VersesRaises(chapter_data) THEN Raised
    ELSE Got(OneVerse(chapter_data, verse_range))

\* FormatOrSentinel without its "if verses" test: the formatter's "" for an
\* empty list is returned
FormatOrSentinelUnguarded(r, sentinel_ref) ==
    IF r.raised \/ FormatRaises(r.verses)
    THEN Sentinel(sentinel_ref)
    ELSE _format_reading_paragraph(r.verses)

\* "if verses: return format(verses) else: return sentinel", inside a try
\* whose except returns the same sentinel
FormatOrSentinel(r, sentinel_ref) ==
    IF r.raised \/ r.verses = <<>> \/ FormatRaises(r.verses)
    THEN Sentinel(sentinel_ref)
    ELSE _format_reading_paragraph(r.verses)

\* _handle_discontinuous_range, lines 223-244: the verses of one segment
SegmentVerses(chapter_data, verse_part) ==
    LET cleaned == _clean_verse_suffix(verse_part)
    IN  IF Contains(cleaned, "-")
        THEN LET se == SplitOnce(cleaned, "-")
             IN  IF IntRaises(se[1]) \/ IntRaises(se[2]) THEN Raised
                 ELSE LoopVerses(chapter_data, IntOf(se[1]), IntOf(se[2]))
        ELSE IF VersesRaises(chapter_data) THEN Raised
        ELSE Got(OneVerse(chapter_data, cleaned))

\* SegmentTarget reading a bare segment from chapter 1 of the first
\* segment's book
SegmentTargetChapterOne(part, book, chapter) ==
    IF Contains(part, ":")
    THEN LET ps == SplitOnce(part, ":")
             bc == BookChapter(ps[1])
         IN  [book |-> _normalize_book_name(bc[1]), chapter |-> bc[2],
              verse_part |-> ps[2]]
    ELSE [book |-> book, chapter |-> sOne, verse_part |-> part]

\* lines 198-216: the (book, chapter, verse part) one segment is read with;
\* book and chapter are those of the first segment
SegmentTarget(part, book, chapter) ==
    IF Contains(part, ":")
    THEN LET ps == SplitOnce(part, ":")
             bc == BookChapter(ps[1])
         IN  [book |-> _normalize_book_name(bc[1]), chapter |-> bc[2],
              verse_part |-> ps[2]]
    ELSE [book |-> book, chapter |-> chapter, verse_part |-> part]

\* DiscontinuousLoop putting each segment's verses before those gathered
RECURSIVE DiscontinuousLoopPrepending(_, _, _, _, _, _, _)
DiscontinuousLoopPrepending(prov, parts, i, book, chapter, all_verses, fetches) ==
    IF i > Len(parts)
    THEN [raised |-> FALSE, verses |-> all_verses, fetches |-> fetches]
    ELSE LET t == SegmentTarget(Strip(parts[i]), book, chapter)
             chapter_data == _get_chapter_data(prov, t.book, t.chapter)
             fetched == Append(fetches, <<t.book, t.chapter>>)
         IN  IF Falsy(chapter_data)
             THEN DiscontinuousLoopPrepending(prov, parts, i + 1, book, chapter,
                                              all_verses, fetched)
             ELSE LET r == SegmentVerses(chapter_data, t.verse_part)
                  IN  IF r.raised
                      THEN [raised |-> TRUE, verses |-> <<>>, fetches |-> fetched]
                      ELSE DiscontinuousLoopPrepending(prov, parts, i + 1, book,
                                                       chapter,
                                                       r.verses \o all_verses,
                                                       fetched)

\* DiscontinuousLoop giving up at the first segment whose fetch fails
RECURSIVE DiscontinuousLoopStopping(_, _, _, _, _, _, _)
DiscontinuousLoopStopping(prov, parts, i, book, chapter, all_verses, fetches) ==
    IF i > Len(parts)
    THEN [raised |-> FALSE, verses |-> all_verses, fetches |-> fetches]
    ELSE LET t == SegmentTarget(Strip(parts[i]), book, chapter)
             chapter_data == _get_chapter_data(prov, t.book, t.chapter)
             fetched == Append(fetches, <<t.book, t.chapter>>)
         IN  IF Falsy(chapter_data)
             THEN [raised |-> TRUE, verses |-> <<>>, fetches |-> fetched]
             ELSE LET r == SegmentVerses(chapter_data, t.verse_part)
                  IN  IF r.raised
                      THEN [raised |-> TRUE, verses |-> <<>>, fetches |-> fetched]
                      ELSE DiscontinuousLoopStopping(prov, parts, i + 1, book,
                                                     chapter,
                                                     all_verses \o r.verses,
                                                     fetched)

\* the loop over the segments, from segment i on
RECURSIVE DiscontinuousLoop(_, _, _, _, _, _, _)
DiscontinuousLoop(prov, parts, i, book, chapter, all_verses, fetches) ==
    IF i > Len(parts)
    THEN [raised |-> FALSE, verses |-> all_verses, fetches |-> fetches]
    ELSE LET t == SegmentTarget(Strip(parts[i]), book, chapter)
             chapter_data == _get_chapter_data(prov, t.book, t.chapter)
             fetched == Append(fetches, <<t.book, t.chapter>>)
         IN  IF Falsy(chapter_data)
             THEN DiscontinuousLoop(prov, parts, i + 1, book, chapter,
                                    all_verses, fetched)
             ELSE LET r == SegmentVerses(chapter_data, t.verse_part)
                  IN  IF r.raised
                      THEN [raised |-> TRUE, verses |-> <<>>, fetches |-> fetched]
                      ELSE DiscontinuousLoop(prov, parts, i + 1, book, chapter,
                                             all_verses \o r.verses, fetched)

_handle_discontinuous_range(reference, prov) ==
    LET parts == Split(reference, ",")
        first_part == Strip(parts[1])
    IN  IF ~Contains(first_part, ":")
        THEN [text |-> Sentinel(reference), fetches |-> <<>>]
        ELSE LET bc == BookChapter(SplitOnce(first_part, ":")[1])
                 r == DiscontinuousLoop(prov, parts, 1,
                                        _normalize_book_name(bc[1]), bc[2],
                                        <<>>, <<>>)
             IN  [text |-> FormatOrSentinel(r, reference), fetches |-> r.fetches]

\* "digits:digits"
IsChapterVerse(s) ==
    LET cv == Split(s, ":")
    IN  Len(cv) = 2 /\ IsDigitStr(cv[1]) /\ IsDigitStr(cv[2])

\* re.match(r'^(.+?)\s+(\d+):(\d+)-(\d+):(\d+)$', s) for a stripped s: the
\* numeric tail stands after the last space, and the lazy first group ends
\* where the run of spaces before the tail begins
CrossChapterMatches(s) ==
    LET j == LastIndex(s, " ")
        ends == Split(DropFirst(s, j), "-")
    IN  /\ j >= 2
        /\ Len(ends) = 2
        /\ IsChapterVerse(ends[1])
        /\ IsChapterVerse(ends[2])

CrossChapterGroups(s) ==
    LET j == LastIndex(s, " ")
        ends == Split(DropFirst(s, j), "-")
    IN  [book |-> Strip(SubSeq(s, 1, j - 1)),
         start_chapter |-> IntOf(Split(ends[1], ":")[1]),
         start_verse |-> IntOf(Split(ends[1], ":")[2]),
         end_chapter |-> IntOf(Split(ends[2], ":")[1]),
         end_verse |-> IntOf(Split(ends[2], ":")[2])]

\* StartChapterVerses with range(start_verse, max_verse): the chapter's last
\* verse is left out
StartChapterVersesShort(chapter_data, start_verse) ==
    IF Falsy(chapter_data) THEN Got(<<>>)
    ELSE IF VersesRaises(chapter_data) THEN Raised
    ELSE IF verse_numbers(chapter_data) = {} THEN Got(<<>>)
    ELSE LoopVerses(chapter_data, start_verse,
                    SetMax(verse_numbers(chapter_data)) - 1)

\* lines 300-312: the verses of the start chapter, start_verse to its
\* largest integer key
StartChapterVerses(chapter_data, start_verse) ==
    IF Falsy(chapter_data) THEN Got(<<>>)
    ELSE IF VersesRaises(chapter_data) THEN Raised
    ELSE IF verse_numbers(chapter_data) = {} THEN Got(<<>>)
    ELSE LoopVerses(chapter_data, start_verse, SetMax(verse_numbers(chapter_data)))

\* lines 288-296 and 315-323: "if chapter_data:" and then a range loop
IfChapterVerses(chapter_data, lo, hi) ==
    IF Falsy(chapter_data) THEN Got(<<>>)
    ELSE LoopVerses(chapter_data, lo, hi)

_handle_cross_chapter_reference(reference, prov) ==
    IF ~CrossChapterMatches(Strip(reference))
    THEN [text |-> Sentinel(reference), fetches |-> <<>>]
    ELSE LET m == CrossChapterGroups(Strip(reference))
             first == <<m.book, StrOf(m.start_chapter)>>
             second == <<m.book, StrOf(m.end_chapter)>>
         IN  IF m.start_chapter = m.end_chapter
             THEN [text |-> FormatOrSentinel(
                               IfChapterVerses(
                                   _get_chapter_data(prov, first[1], first[2]),
                                   m.start_verse, m.end_verse),
                               reference),
                   fetches |-> <<first>>]
             ELSE LET a == StartChapterVerses(
                               _get_chapter_data(prov, first[1], first[2]),
                               m.start_verse)
                      b == IfChapterVerses(
                               _get_chapter_data(prov, second[1], second[2]),
                               1, m.end_verse)
                  IN  IF a.raised
                      THEN [text |-> Sentinel(reference), fetches |-> <<first>>]
                      ELSE [text |-> FormatOrSentinel(
                                        IF b.raised THEN Raised
                                        ELSE Got(a.verses \o b.verses),
                                        reference),
                            fetches |-> <<first, second>>]

_handle_complex_reference(reference, prov) ==
    IF Contains(reference, ",")
    THEN _handle_discontinuous_range(reference, prov)
    ELSE IF Contains(reference, "-") /\ Contains(reference, ":")
            /\ Count(reference, ":") >= 2
    THEN _handle_cross_chapter_reference(reference, prov)
    ELSE [text |-> Sentinel(reference), fetches |-> <<>>]

_get_reading_text(reference, prov) ==
    LET clean_reference == _clean_reference(reference)
        parsed == _parse_reference(clean_reference)
    IN  IF parsed.complex
        THEN _handle_complex_reference(clean_reference, prov)
        ELSE LET chapter_data == _get_chapter_data(prov, parsed.book, parsed.chapter)
             IN  [text |-> IF Falsy(chapter_data) THEN Sentinel(reference)
                           ELSE FormatOrSentinel(
                                    SingleChapterVerses(chapter_data, parsed.verse),
                                    reference),
                  fetches |-> <<<<parsed.book, parsed.chapter>>>>]

\* get_reading_contents: a string item becomes {'reference', 'text'}, any
\* other item is kept as it is.  An item is [isstr, s]; isstr = FALSE stands
\* for a non-string item of the list.
StrItem(s) == [isstr |-> TRUE, s |-> s]
OtherItem == [isstr |-> FALSE, s |-> <<>>]

\* EnrichedWith leaving out a string item whose text is the sentinel
EnrichedWithResolvedOnly(reading_ref, r, rest) ==
    IF reading_ref.isstr
    THEN [enriched_readings |->
              (IF r.text[1] = ReadingOpen THEN <<>>
               ELSE <<[reference |-> reading_ref.s, text |-> r.text]>>)
              \o rest.enriched_readings,
          fetches |-> r.fetches \o rest.fetches]
    ELSE [enriched_readings |-> <<reading_ref>> \o rest.enriched_readings,
          fetches |-> rest.fetches]

\* lines 42-51: what one item adds to the result; r is what
\* _get_reading_text returned for it, rest the result for the later items
EnrichedWith(reading_ref, r, rest) ==
    IF reading_ref.isstr
    THEN [enriched_readings |->
              <<[reference |-> reading_ref.s, text |-> r.text]>>
              \o rest.enriched_readings,
          fetches |-> r.fetches \o rest.fetches]
    ELSE [enriched_readings |-> <<reading_ref>> \o rest.enriched_readings,
          fetches |-> rest.fetches]

\* (_get_reading_text never raises, so the "return readings" of the except
\* clause is never reached)
RECURSIVE get_reading_contents(_, _)
get_reading_contents(list, prov) ==
    IF list = <<>> THEN [enriched_readings |-> <<>>, fetches |-> <<>>]
    ELSE EnrichedWith(Head(list), _get_reading_text(Head(list).s, prov),
                      get_reading_contents(Tail(list), prov))

\* ------------------------------------------------------------------------
\* The inputs: references, and what the provider holds
\* ------------------------------------------------------------------------

\* the largest verse number and chapter number written in a single-chapter
\* or cross-chapter reference
MaxVerse == 3
MaxChapter == 2

Cat3(a, b, c) == a \o b \o c

VerseNums == {StrOf(n) : n \in 1..MaxVerse}
ChapterNums == {StrOf(n) : n \in 1..MaxChapter}

\* "Book C:"
BookChapterColon(book, chapter) == book \o <<" ">> \o chapter \o <<":">>

\* A verse part as its writer means it: verse lo alone (single), or the
\* range lo-hi; lo_suffix / hi_suffix put the letter "a" after an endpoint.
VersePartText(vp) ==
    StrOf(vp.lo) \o (IF vp.lo_suffix THEN <<"a">> ELSE <<>>)
    \o (IF vp.single THEN <<>>
        ELSE <<"-">> \o StrOf(vp.hi) \o (IF vp.hi_suffix THEN <<"a">> ELSE <<>>))

OneVerseOf(n) ==
    [lo |-> n, hi |-> n, single |-> TRUE, lo_suffix |-> FALSE, hi_suffix |-> FALSE]
RangeOf(a, b) ==
    [lo |-> a, hi |-> b, single |-> FALSE, lo_suffix |-> FALSE, hi_suffix |-> FALSE]

PlainVerseParts ==
    {OneVerseOf(n) : n \in 1..MaxVerse}
    \cup {RangeOf(a, b) : a \in 1..MaxVerse, b \in 1..MaxVerse}

\* verse parts with a letter suffix on an endpoint: "2a", "1-2a", "1a-2"
SuffixedVerseParts ==
    {[OneVerseOf(2) EXCEPT !.lo_suffix = TRUE],
     [RangeOf(1, 2) EXCEPT !.hi_suffix = TRUE],
     [RangeOf(1, 2) EXCEPT !.lo_suffix = TRUE]}

\* "A-end" for A in OpenEndStarts
OpenEndStarts == {1, 2}
OpenEndText(a) == StrOf(a) \o <<"-">> \o sEnd

VerseParts ==
    {VersePartText(vp) : vp \in PlainVerseParts \cup SuffixedVerseParts}
    \cup {OpenEndText(a) : a \in OpenEndStarts}
    \cup {<<"1", "-", "E", "n", "d">>, <<"1", "-">>}

BookNames == {sJohn, s1John, sPsalm, sPs, sPSALM, sPSALMS, sPsalms}

SingleRefs ==
    {BookChapterColon(sJohn, c) \o vp : c \in ChapterNums, vp \in VerseParts}
    \cup {BookChapterColon(b, <<"1">>) \o <<"1", "-", "2">> : b \in BookNames}
    \cup BookNames
    \cup {<<>>, <<"J", "o", "h", "n", ":", "2">>,
          <<"J", "o", "h", "n", " ", "1", "-", "2">>,
          <<"J", "o", "h", "n", " ", " ", "2", ":", " ", "3">>,
          <<"J", "o", "h", "n", " ", "1", ":", "2", ":", "3">>,
          <<"J", "o", "h", "n", " ", "3", ":", "1">>}

\* A segment of a discontinuous reference: its "Book C:" head as written
\* (empty for a bare segment) and its verse part.
Segment(head, vp) == [head |-> head, vp |-> vp]
SegmentText(seg) == seg.head \o VersePartText(seg.vp)

FirstSegments ==
    {Segment(BookChapterColon(b, c), vp) :
        b \in {sJohn, sPsalm}, c \in {<<"1">>},
        vp \in {OneVerseOf(1), RangeOf(2, 3)}}
    \cup {Segment(BookChapterColon(sJohn, <<"2">>), RangeOf(1, 2)),
          Segment(BookChapterColon(sJohn, <<"3">>), OneVerseOf(1))}

NextSegments ==
    {Segment(<<>>, vp) : vp \in {OneVerseOf(1), OneVerseOf(3), RangeOf(1, 2)}}
    \cup {Segment(BookChapterColon(sJohn, <<"2">>), OneVerseOf(3)),
          Segment(BookChapterColon(sPsalm, <<"1">>), RangeOf(2, 3)),
          Segment(BookChapterColon(sJohn, <<"3">>), OneVerseOf(1))}

\* the discontinuous references written with digits only: lists of segments
DiscontinuousCases ==
    {<<f, n>> : f \in FirstSegments, n \in NextSegments}
    \cup {<<Segment(BookChapterColon(sPsalm, <<"1">>), OneVerseOf(1)), n, l>> :
             n \in {Segment(<<>>, OneVerseOf(3)),
                    Segment(BookChapterColon(sJohn, <<"2">>), OneVerseOf(3)),
                    Segment(BookChapterColon(sJohn, <<"1">>), RangeOf(1, 2))},
             l \in {Segment(<<>>, OneVerseOf(2)), Segment(<<>>, RangeOf(1, 3))}}

\* the segments joined by sep: "," or ", "
RECURSIVE DiscontinuousText(_, _)
DiscontinuousText(segs, sep) ==
    IF Len(segs) = 1 THEN SegmentText(segs[1])
    ELSE SegmentText(segs[1]) \o sep \o DiscontinuousText(Tail(segs), sep)

CommaSeparators == {<<",">>, <<",", " ">>}

DiscontinuousRefs ==
    {DiscontinuousText(c, sep) : c \in DiscontinuousCases, sep \in CommaSeparators}
    \cup {Cat3(SegmentText(f), <<",", " ">>, n) :
             f \in FirstSegments,
             n \in {<<"3", "a">>, <<"2", "a", "-", "3">>}}
    \cup {<<"J", "o", "h", "n", ",", " ", "1">>}

\* the cross-chapter references written with digits only
CrossChapterCases ==
    [book : {sJohn, sPsalm}, c1 : 1..MaxChapter, v1 : {1, 2},
     c2 : 1..MaxChapter, v2 : {1, 3}]

CrossChapterText(x) ==
    BookChapterColon(x.book, StrOf(x.c1)) \o StrOf(x.v1) \o <<"-">>
    \o StrOf(x.c2) \o <<":">> \o StrOf(x.v2)

CrossChapterRefs ==
    {CrossChapterText(x) : x \in CrossChapterCases}
    \cup {BookChapterColon(s1John, <<"1">>) \o <<"1", "-", "2", ":", "1">>,
          BookChapterColon(sJohn, <<"1">>) \o <<"2", "a", "-", "2", ":", "1">>,
          BookChapterColon(sJohn, <<"1">>) \o <<"3", "-", "3", ":", "1">>,
          BookChapterColon(sJohn, <<"3">>) \o <<"1", "-", "4", ":", "1">>,
          <<"J", "o", "h", "n", " ", " ", "0", "1", ":", "2", "-", "2", ":", "1">>}

AlternativeRefs ==
    {Cat3(a, sOr, b) :
         a \in {BookChapterColon(sJohn, <<"1">>) \o <<"1", "-", "2">>},
         b \in {BookChapterColon(sJohn, <<"1">>) \o <<"1", "-", "3">>,
                BookChapterColon(sJohn, <<"2">>) \o <<"1">>}}
    \cup {Cat3(BookChapterColon(sJohn, <<"1">>) \o <<"1">>, sOr,
               BookChapterColon(sJohn, <<"1">>) \o <<"2">>)}

\* what a caller may put before (and after) a reference
Lead ==
    {pGospel \o <<" ">>, pPsalm \o <<" ">>,
     pFirstReading \o <<" ">> \o pGospel \o <<" ">>,
     pGospel \o <<" ">> \o pFirstReading \o <<" ">>,
     <<"g", "o", "s", "p", "e", "l", ":", " ">>,
     <<" ">>}

LedRefs ==
    {l \o r : l \in Lead,
              r \in {sPsalm,
                     BookChapterColon(sJohn, <<"1">>) \o <<"1">>,
                     BookChapterColon(sJohn, <<"3">>) \o <<"1">>,
                     BookChapterColon(sJohn, <<"1">>) \o <<"1", ",", " ", "3">>,
                     BookChapterColon(sJohn, <<"3">>) \o <<"1", ",", " ", "3">>,
                     BookChapterColon(sJohn, <<"1">>) \o <<"2", "-", "2", ":", "1">>,
                     BookChapterColon(sJohn, <<"3">>) \o <<"1", "-", "4", ":", "1">>}}
    \cup {BookChapterColon(sJohn, <<"1">>) \o <<"1", " ">>,
          BookChapterColon(sJohn, <<"3">>) \o <<"1", ",", "2", " ">>}

References ==
    SingleRefs \cup DiscontinuousRefs \cup CrossChapterRefs
    \cup AlternativeRefs \cup LedRefs

\* Verse texts.  An element of a text is a space, the pilcrow, or a run of
\* other characters (the code never looks inside a word).
John1Verses ==
    (<<"1">> :> JsonStr(<<"In", " ", "the", " ", "beginning", " ", "was">>))
    @@ (<<"2">> :> JsonStr(<<"Word">>))
    @@ (<<"3">> :> JsonStr(<<"All", " ", "things", Pilcrow, " ", "were", " ", "made">>))

John2Verses ==
    (<<"1">> :> JsonStr(<<"And", " ", "the", " ", " ", "third", " ", "day">>))
    @@ (<<"2">> :> JsonStr(<<" ", "Jesus", " ", "also", " ">>))
    @@ (<<"3">> :> JsonStr(<<"wine">>))

Psalms1Verses ==
    (<<"1">> :> JsonStr(<<"Blessed", " ", "is">>))
    @@ (<<"2">> :> JsonStr(<<Pilcrow, "But", " ", "his", " ", "delight">>))
    @@ (<<"3">> :> JsonStr(<<"a", " ", "tree", " ", "planted">>))

\* verses 2 and 4..9 absent, a two-digit last verse, a non-integer key
GappyVerses ==
    (<<"1">> :> JsonStr(<<"first", " ", "verse", " ", "text">>))
    @@ (<<"3">> :> JsonStr(<<"third">>))
    @@ (<<"1", "0">> :> JsonStr(<<"tenth", " ", "verse">>))
    @@ (<<"t", "i", "t", "l", "e">> :> JsonStr(<<"heading">>))

\* no integer verse key at all
UnnumberedVerses ==
    (<<"t", "i", "t", "l", "e">> :> JsonStr(<<"heading">>))
    @@ (<<"1", "a">> :> JsonStr(<<"half">>))

\* texts that are not usable strings: a number, an empty string, a lone
\* pilcrow
OddVerses ==
    (<<"1">> :> JsonNumber)
    @@ (<<"2">> :> JsonStr(<<>>))
    @@ (<<"3">> :> JsonStr(<<Pilcrow>>))

Ok(body) == [status |-> "ok", body |-> body]
HttpError == [status |-> "error", body |-> EmptyDict]
Timeout == [status |-> "timeout", body |-> EmptyDict]

John1Answers ==
    {Ok(ChapterDict(John1Verses)), Ok(ChapterDict(GappyVerses)),
     Ok(ChapterDict(UnnumberedVerses)), Ok(ChapterDict(OddVerses)),
     Ok(NoVersesDict), Ok(EmptyDict), HttpError, Timeout}

John2Answers == {Ok(ChapterDict(John2Verses)), Ok(NoVersesDict), HttpError}

Psalms1Answers == {Ok(ChapterDict(Psalms1Verses)), Timeout}

\* the provider: its answer per (book, chapter); a pair outside the domain
\* is unknown to it
Providers ==
    {(<<sJohn, <<"1">>>> :> j1) @@ (<<sJohn, <<"2">>>> :> j2)
     @@ (<<sPsalms, <<"1">>>> :> p1) :
        j1 \in John1Answers, j2 \in John2Answers, p1 \in Psalms1Answers}

\* the lists get_reading_contents is called with
ReadingLists ==
    {<<StrItem(r)>> : r \in References}
    \cup {<<>>, <<OtherItem>>}
    \cup {<<a, b>> : a \in {StrItem(BookChapterColon(sJohn, <<"3">>) \o <<"1">>), OtherItem},
                     b \in {StrItem(BookChapterColon(sJohn, <<"1">>) \o <<"1">>),
                            StrItem(BookChapterColon(sJohn, <<"2">>) \o <<"1", "-", "2">>)}}
    \cup {<<StrItem(BookChapterColon(sJohn, <<"3">>) \o <<"1">>), OtherItem,
            StrItem(BookChapterColon(sJohn, <<"2">>) \o <<"1", "-", "2">>)>>}

\* ------------------------------------------------------------------------
\* The state machine
\* ------------------------------------------------------------------------

\* ScripturaService.__init__: the attributes a ScripturaService is given at
\* construction; base_url.rstrip('/')
RECURSIVE RStripSlash(_)
RStripSlash(s) ==
    IF s # <<>> /\ s[Len(s)] = "/" THEN RStripSlash(SubSeq(s, 1, Len(s) - 1))
    ELSE s

ScripturaService(base_url, version) ==
    [api_key |-> "None", base_url |-> RStripSlash(base_url), version |-> version]

\* the defaults of __init__, and the same URL written with a closing "/"
DefaultBaseUrl == <<"https://www.scriptura-api.com">>
DefaultVersion == <<"asv">>
BaseUrls == {DefaultBaseUrl, DefaultBaseUrl \o <<"/">>}

\* no call has been answered yet
NoCall == [known |-> FALSE, readings |-> <<>>, enriched |-> <<>>]

VARIABLES
    service,      \* the ScripturaService object: api_key, base_url, version
    provider,     \* what the Scriptura API at service.base_url answers for
                  \* service.version, per (book, chapter)
    readings,     \* the argument of the current get_reading_contents call
    enriched,     \* what the call returned
    fetch_log,    \* the _get_chapter_data calls made during the call
    pc,           \* "idle", "called" (call made, not yet run), "done"
                  \* (returned, response not yet sent)
    earlier,      \* history: the call answered just before this one and its
                  \* result, kept while the same list is asked again
    web,          \* the artwork request being served and its response
    artwork,      \* what the ArtworkManager holds: the dates with a cached
                  \* artwork file, those whose file is gone from the disk,
                  \* those for which a next artwork is found
    run,          \* one run of main(): its config, its position, the steps
                  \* taken so far and its return code
    reflection,   \* the ReflectionService object (tokens_used), its cache
                  \* directory, its callers and the LLM calls made
    wikipedia,    \* the WikipediaService cache directory, the clock, the
                  \* current get_summary call and the API calls made
    images        \* the DataService image cache, the current call, the
                  \* subprocess runs made

scriptura == <<service, provider, readings, enriched, fetch_log, pc, earlier>>

vars == <<service, provider, readings, enriched, fetch_log, pc, earlier,
          web, artwork, run, reflection, wikipedia, images>>

\* a request arrives: web_server.api_reading_content calls
\* get_reading_contents
Call(list) ==
    /\ pc = "idle"
    /\ readings' = list
    /\ pc' = "called"
    /\ earlier' = IF earlier.readings = list THEN earlier ELSE NoCall
    /\ UNCHANGED <<service, provider, enriched, fetch_log>>
    /\ UNCHANGED <<web, artwork, run, reflection, wikipedia, images>>

\* Returns with enriched_readings kept on the object between calls instead
\* of starting as [] in each call
ReturnsAppending(r) ==
    /\ enriched' = earlier.enriched \o r.enriched_readings
    /\ fetch_log' = r.fetches

\* get_reading_contents runs to its return; no method assigns an attribute
\* of the service
Returns(r) ==
    /\ enriched' = r.enriched_readings
    /\ fetch_log' = r.fetches

GetReadingContents ==
    /\ pc = "called"
    /\ Returns(get_reading_contents(readings, provider))
    /\ pc' = "done"
    /\ UNCHANGED <<service, provider, readings, earlier>>
    /\ UNCHANGED <<web, artwork, run, reflection, wikipedia, images>>

\* the caller has built its response from the result; the request is over
Respond ==
    /\ pc = "done"
    /\ earlier' = [known |-> TRUE, readings |-> readings, enriched |-> enriched]
    /\ readings' = <<>>
    /\ enriched' = <<>>
    /\ fetch_log' = <<>>
    /\ pc' = "idle"
    /\ UNCHANGED <<service, provider>>
    /\ UNCHANGED <<web, artwork, run, reflection, wikipedia, images>>

\* ------------------------------------------------------------------------
\* web_server.py: the artwork endpoints
\* ------------------------------------------------------------------------

\* date.today() on the day of the run
Today == <<2024, 1, 15>>

\* the <date_str> of a request: well-formed dates (one without leading
\* zeros, one on a leap day), a day its month does not have, a month out
\* of range, a date without separators, a trailing space
DateStrs ==
    {<<"2", "0", "2", "4", "-", "0", "1", "-", "1", "5">>,
     <<"2", "0", "2", "4", "-", "1", "-", "5">>,
     <<"2", "0", "2", "4", "-", "0", "2", "-", "2", "9">>,
     <<"2", "0", "2", "3", "-", "0", "2", "-", "2", "9">>,
     <<"2", "0", "2", "4", "-", "1", "3", "-", "0", "1">>,
     <<"2", "0", "2", "4", "0", "1", "1", "5">>,
     <<"2", "0", "2", "4", "-", "0", "1", "-", "1", "5", " ">>}

\* datetime.strptime(date_str, '%Y-%m-%d').date(): a four-digit year, a
\* month 1..12 and a day 1..31 of one or two digits, separated by '-', and
\* the day within the month; ValueError otherwise
strptime(date_str) ==
    LET p == Split(date_str, "-")
        y == DigitsValue(p[1])
        m == DigitsValue(p[2])
        d == DigitsValue(p[3])
        days == IF m = 2
                THEN (IF y % 4 = 0 /\ (y % 100 # 0 \/ y % 400 = 0) THEN 29 ELSE 28)
                ELSE IF m \in {4, 6, 9, 11} THEN 30 ELSE 31
    IN  IF /\ Len(p) = 3
           /\ \A i \in 1..3 : IsDigitStr(p[i])
           /\ Len(p[1]) = 4 /\ Len(p[2]) <= 2 /\ Len(p[3]) <= 2
           /\ y >= 1 /\ m \in 1..12 /\ d \in 1..days
        THEN [raised |-> "none", date |-> <<y, m, d>>]
        ELSE [raised |-> "ValueError", date |-> <<>>]

\* the if/else of the four endpoints on the path the data service gave:
\* send_file answers 200, or raises when the file is not on the disk;
\* abort(404) raises the HTTPException NotFound
SendFileOrAbort(path) ==
    IF path = "None" THEN [raised |-> "HTTPException", status |-> 404]
    ELSE IF path = "gone" THEN [raised |-> "Exception", status |-> 0]
    ELSE [raised |-> "none", status |-> 200]

\* DataService.get_artwork_path: the path of the cached file, or None
get_artwork_path(target_date) ==
    IF target_date \notin artwork.cached THEN "None"
    ELSE IF target_date \in artwork.gone THEN "gone"
    ELSE "file"

\* DataService.get_next_artwork_info, then .get('cached_file') at the caller
get_next_artwork_info(target_date) ==
    IF target_date \in artwork.next THEN "file" ELSE "None"

\* "except Exception" catching the HTTPException as any other exception
ExceptException(outcome) ==
    IF outcome.raised = "none" THEN outcome.status ELSE 500

\* the status each endpoint answers with: the try body, then the except
\* clauses in order (abort(400) and abort(500) are raised outside the try),
\* then the error handler, which keeps the code
api_today_artwork ==
    ExceptException(SendFileOrAbort(get_artwork_path(Today)))

api_date_artwork(date_str) ==
    IF strptime(date_str).raised = "ValueError" THEN 400
    ELSE ExceptException(SendFileOrAbort(get_artwork_path(strptime(date_str).date)))

api_today_next_artwork ==
    ExceptException(SendFileOrAbort(get_next_artwork_info(Today)))

api_date_next_artwork(date_str) ==
    IF strptime(date_str).raised = "ValueError" THEN 400
    ELSE ExceptException(SendFileOrAbort(get_next_artwork_info(strptime(date_str).date)))

\* a GET for one of the four routes arrives
ArtworkRequest(endpoint, date_str) ==
    /\ web.at # "received"
    /\ web' = [at |-> "received", endpoint |-> endpoint, date_str |-> date_str,
               status |-> 0]
    /\ UNCHANGED <<scriptura, artwork, run, reflection, wikipedia, images>>

\* the endpoint function runs and Flask sends its response
ArtworkResponse ==
    /\ web.at = "received"
    /\ web' = [web EXCEPT
                  !.at = "responded",
                  !.status =
                      CASE web.endpoint = "/api/artwork/today" -> api_today_artwork
                        [] web.endpoint = "/api/artwork/<date_str>" ->
                               api_date_artwork(web.date_str)
                        [] web.endpoint = "/api/next-artwork/today" ->
                               api_today_next_artwork
                        [] web.endpoint = "/api/next-artwork/<date_str>" ->
                               api_date_next_artwork(web.date_str)]
    /\ UNCHANGED <<scriptura, artwork, run, reflection, wikipedia, images>>

NextWeb ==
    \/ \E e \in {"/api/artwork/today", "/api/next-artwork/today"} :
           ArtworkRequest(e, <<>>)
    \/ \E e \in {"/api/artwork/<date_str>", "/api/next-artwork/<date_str>"} :
           \E s \in DateStrs : ArtworkRequest(e, s)
    \/ ArtworkResponse

\* ------------------------------------------------------------------------
\* main.py, updater.py, calendar.py, display.py: one run of main()
\* ------------------------------------------------------------------------

\* config.yaml as load_config returns it: shutdown_after_display true,
\* false or not given; vcom a float, an int, a string or not given
Configs ==
    [shutdown_after_display : {"True", "False", "absent"},
     vcom : {[kind |-> "float", neg |-> TRUE, whole |-> 2, frac |-> <<"5", "1">>],
             [kind |-> "float", neg |-> TRUE, whole |-> 1, frac |-> <<"5">>],
             [kind |-> "int", neg |-> FALSE, whole |-> 251, frac |-> <<>>],
             [kind |-> "str", neg |-> FALSE, whole |-> 0, frac |-> <<>>],
             [kind |-> "absent", neg |-> FALSE, whole |-> 0, frac |-> <<>>]}]

\* display_image: vcom = str(config.get('vcom', '-2.51')).replace('-', ''),
\* and '251' when that is empty.  str() of the default is '-2.51', of a
\* float its sign, whole part, '.', fraction; the string modelled is ''
vcom_arg(config) ==
    LET v == config.vcom
        str == CASE v.kind = "absent" -> <<"-", "2", ".", "5", "1">>
                 [] v.kind = "str" -> <<>>
                 [] v.kind = "int" -> (IF v.neg THEN <<"-">> ELSE <<>>) \o StrOf(v.whole)
                 [] v.kind = "float" ->
                        (IF v.neg THEN <<"-">> ELSE <<>>) \o StrOf(v.whole)
                        \o <<".">> \o v.frac
        vcom == Join(Split(str, "-"), <<>>)
    IN  IF vcom # <<>> THEN vcom ELSE <<"2", "5", "1">>

\* the rest of main() that issues the shutdown whatever display_image
\* returned
AfterDisplayShutdownAlways(config, success, shutdown_ok) ==
    [steps |-> IF config.shutdown_after_display = "True"
               THEN <<[step |-> "shutdown", ok |-> shutdown_ok]>> ELSE <<>>,
     code |-> IF success THEN 0 ELSE 1]

\* main() after display_image returned: return 1 when it failed; else the
\* shutdown command when config.get('shutdown_after_display', False), its
\* failure logged only; return 0
AfterDisplay(config, success, shutdown_ok) ==
    IF ~success THEN [steps |-> <<>>, code |-> 1]
    ELSE [steps |-> IF config.shutdown_after_display = "True"
                    THEN <<[step |-> "shutdown", ok |-> shutdown_ok]>> ELSE <<>>,
          code |-> 0]

\* update_calendar_package returns True or False; it catches what its
\* subprocesses raise
UpdateCalendarPackage(updated) ==
    /\ run.at = "start"
    /\ run' = [run EXCEPT !.at = "updated",
                          !.steps = Append(@, [step |-> "update", ok |-> updated])]
    /\ UNCHANGED <<scriptura, web, artwork, reflection, wikipedia, images>>

\* render_today returns, or re-raises what its subprocess raised: main()
\* is left by the exception
RenderToday(rendered) ==
    /\ run.at = "updated"
    /\ run' = [run EXCEPT !.at = IF rendered THEN "rendered" ELSE "raised",
                          !.steps = Append(@, [step |-> "render", ok |-> rendered])]
    /\ UNCHANGED <<scriptura, web, artwork, reflection, wikipedia, images>>

\* display_image runs "sudo epdraw <image> <vcom> 2" and returns whether it
\* succeeded; main() runs to its return
DisplayImage(success, shutdown_ok) ==
    /\ run.at = "rendered"
    /\ run' = [run EXCEPT
                  !.at = "returned",
                  !.argv = <<"sudo", "epdraw", "today.png", vcom_arg(run.config), "2">>,
                  !.steps = Append(@, [step |-> "display", ok |-> success])
                            \o AfterDisplay(run.config, success, shutdown_ok).steps,
                  !.code = AfterDisplay(run.config, success, shutdown_ok).code]
    /\ UNCHANGED <<scriptura, web, artwork, reflection, wikipedia, images>>

NextMain ==
    \/ \E updated \in BOOLEAN : UpdateCalendarPackage(updated)
    \/ \E rendered \in BOOLEAN : RenderToday(rendered)
    \/ \E success \in BOOLEAN, shutdown_ok \in BOOLEAN :
           DisplayImage(success, shutdown_ok)

\* ------------------------------------------------------------------------
\* services/reflection_service.py: ReflectionService
\* ------------------------------------------------------------------------

\* the dates reflections are asked for
ReflectionDates == {<<2024, 1, 15>>, <<2024, 1, 5>>}

\* response.usage.total_tokens of an LLM response
TokenCounts == {1, 2}

\* the most get_reflection calls made on one service object
MaxCalls == 3

\* the threads of the web server that call the one service object
Threads == {1, 2}

\* a reflection dict: its date, its "fallback" mark and its "tokens_used"
Reflection(d, fallback, n) ==
    [kind |-> "reflection", date |-> d, fallback |-> fallback, tokens_used |-> n]

\* None, and a cache file that does not exist
Nothing == [kind |-> "none", date |-> <<>>, fallback |-> FALSE, tokens_used |-> 0]

\* a cache file that exists and does not load
Corrupt == [kind |-> "corrupt", date |-> <<>>, fallback |-> FALSE, tokens_used |-> 0]

\* _get_cached_reflection that finds no file
GetCachedReflectionNever(cache, d) == Nothing

\* _get_cached_reflection: json.load of the file when it exists, None when
\* it does not exist or does not load
_get_cached_reflection(cache, d) ==
    IF cache[d].kind = "reflection" THEN cache[d] ELSE Nothing

\* _cache_reflection: the file holds the reflection when the write went
\* through; a write cut short after open(..., 'w') leaves a file that does
\* not load; a failed open leaves the directory as it was
_cache_reflection(cache, d, r, write) ==
    IF write = "ok" THEN [cache EXCEPT ![d] = r]
    ELSE IF write = "torn" THEN [cache EXCEPT ![d] = Corrupt]
    ELSE cache

\* a fallback without the "fallback" mark
FallbackUnmarked(d) == Reflection(d, FALSE, 0)

\* _get_fallback_reflection: "tokens_used": 0, "fallback": True
_get_fallback_reflection(d) == Reflection(d, TRUE, 0)

\* a thread that is not inside get_reflection
IdleCaller ==
    [at |-> "idle", date |-> <<>>, usage |-> 0, usable |-> FALSE, loaded |-> 0,
     result |-> Nothing, called |-> FALSE, known |-> Nothing, before |-> 0,
     retry |-> FALSE, beside |-> FALSE]

\* a thread calls get_reflection(d, ...); known, before, retry and beside
\* are history: the reflection first written for d by an earlier call,
\* tokens_used at the call, whether the latest call for d returned a
\* fallback, whether another thread is inside a call for d
GetReflection(t, d) ==
    /\ reflection.callers[t].at = "idle"
    /\ reflection.calls < MaxCalls
    /\ reflection' =
           [reflection EXCEPT
               !.calls = @ + 1,
               !.callers[t] =
                   [IdleCaller EXCEPT
                       !.at = "lookup", !.date = d,
                       !.known = reflection.written[d],
                       !.before = reflection.tokens_used,
                       !.retry = reflection.last[d] = "fallback",
                       !.beside = \E u \in Threads \ {t} :
                                      /\ reflection.callers[u].at \notin {"idle", "done"}
                                      /\ reflection.callers[u].date = d]]
    /\ UNCHANGED <<scriptura, web, artwork, run, wikipedia, images>>

\* "Check cache first": return the cached reflection, or go on to generate
CheckCache(t, cached) ==
    /\ reflection.callers[t].at = "lookup"
    /\ reflection' =
           [reflection EXCEPT
               !.callers[t].at = IF cached.kind = "reflection" THEN "done" ELSE "generate",
               !.callers[t].result = cached]
    /\ UNCHANGED <<scriptura, web, artwork, run, wikipedia, images>>

\* _generate_reflection up to the response: client.chat.completions.create
\* raises (n = 0), or answers with total_tokens n and a content that the
\* rest of _generate_reflection accepts (usable) or raises on
CallLlm(t, n, usable) ==
    /\ reflection.callers[t].at = "generate"
    /\ reflection' =
           [reflection EXCEPT
               !.llm[reflection.callers[t].date] = @ + 1,
               !.billed = @ + n,
               !.callers[t].called = TRUE,
               !.callers[t].usage = n,
               !.callers[t].usable = usable,
               !.callers[t].at = IF n = 0 THEN "fallback" ELSE "load"]
    /\ UNCHANGED <<scriptura, web, artwork, run, wikipedia, images>>

\* self.tokens_used += response.usage.total_tokens, first half: the
\* attribute is read
LoadTokensUsed(t) ==
    /\ reflection.callers[t].at = "load"
    /\ reflection' =
           [reflection EXCEPT
               !.callers[t].loaded = reflection.tokens_used,
               !.callers[t].at = "store"]
    /\ UNCHANGED <<scriptura, web, artwork, run, wikipedia, images>>

\* second half: the sum is stored; then the content is parsed and the
\* reflection built, or an exception raised
StoreTokensUsed(t) ==
    /\ reflection.callers[t].at = "store"
    /\ reflection' =
           [reflection EXCEPT
               !.tokens_used = reflection.callers[t].loaded + reflection.callers[t].usage,
               !.callers[t].at = IF reflection.callers[t].usable THEN "cache" ELSE "fallback"]
    /\ UNCHANGED <<scriptura, web, artwork, run, wikipedia, images>>

\* _cache_reflection, then "return reflection"
CacheReflection(t, write) ==
    /\ reflection.callers[t].at = "cache"
    /\ reflection' =
           [reflection EXCEPT
               !.cache = _cache_reflection(
                             @, reflection.callers[t].date,
                             Reflection(reflection.callers[t].date, FALSE,
                                        reflection.callers[t].usage), write),
               !.written[reflection.callers[t].date] =
                   IF write = "ok" /\ @ = Nothing
                   THEN Reflection(reflection.callers[t].date, FALSE,
                                   reflection.callers[t].usage)
                   ELSE @,
               !.callers[t].result = Reflection(reflection.callers[t].date, FALSE,
                                                reflection.callers[t].usage),
               !.callers[t].at = "done"]
    /\ UNCHANGED <<scriptura, web, artwork, run, wikipedia, images>>

\* the except clause of get_reflection: return the fallback
ReturnFallback(t) ==
    /\ reflection.callers[t].at = "fallback"
    /\ reflection' =
           [reflection EXCEPT
               !.callers[t].result =
                   _get_fallback_reflection(reflection.callers[t].date),
               !.callers[t].at = "done"]
    /\ UNCHANGED <<scriptura, web, artwork, run, wikipedia, images>>

\* the caller takes the result
ReflectionReturned(t) ==
    /\ reflection.callers[t].at = "done"
    /\ reflection' =
           [reflection EXCEPT
               !.last[reflection.callers[t].date] =
                   IF reflection.callers[t].result.fallback THEN "fallback" ELSE "reflection",
               !.callers[t] = IdleCaller]
    /\ UNCHANGED <<scriptura, web, artwork, run, wikipedia, images>>

\* get_reflection in thread t, one step
GetReflectionStep(t) ==
    \/ \E d \in ReflectionDates : GetReflection(t, d)
    \/ CheckCache(t, _get_cached_reflection(reflection.cache, reflection.callers[t].date))
    \/ CallLlm(t, 0, FALSE)
    \/ \E n \in TokenCounts, usable \in BOOLEAN : CallLlm(t, n, usable)
    \/ LoadTokensUsed(t)
    \/ StoreTokensUsed(t)
    \/ \E write \in {"ok", "torn", "failed"} : CacheReflection(t, write)
    \/ ReturnFallback(t)
    \/ ReflectionReturned(t)

\* calls made one after the other
NextReflection == GetReflectionStep(1)

\* calls made by the threads of the web server
NextReflectionThreads == \E t \in Threads : GetReflectionStep(t)

\* ------------------------------------------------------------------------
\* services/wikipedia_service.py: WikipediaService
\* ------------------------------------------------------------------------

\* str.isalnum for one character
Alnum ==
    Digits \cup
    {"a", "b", "c", "d", "e", "f", "g", "h", "i", "j", "k", "l", "m", "n", "o",
     "p", "q", "r", "s", "t", "u", "v", "w", "x", "y", "z",
     "A", "B", "C", "D", "E", "F", "G", "H", "I", "J", "K", "L", "M", "N", "O",
     "P", "Q", "R", "S", "T", "U", "V", "W", "X", "Y", "Z"}

\* the URLs get_summary is called with, as urlparse splits them: three
\* articles (two of their titles differ in one full stop), a host that is
\* not Wikipedia, a path that is not /wiki/<title>; none is percent-encoded
WikipediaUrls ==
    {[netloc |-> <<"en", ".", "wikipedia", ".", "org">>,
      path |-> <<"/", "w", "i", "k", "i", "/", "S", "t", ".", "_", "L", "e", "o">>],
     [netloc |-> <<"en", ".", "wikipedia", ".", "org">>,
      path |-> <<"/", "w", "i", "k", "i", "/", "S", "t", "_", "L", "e", "o">>],
     [netloc |-> <<"en", ".", "wikipedia", ".", "org">>,
      path |-> <<"/", "w", "i", "k", "i", "/", "L", "e", "o">>],
     [netloc |-> <<"example", ".", "org">>,
      path |-> <<"/", "w", "i", "k", "i", "/", "L", "e", "o">>],
     [netloc |-> <<"en", ".", "wikipedia", ".", "org">>,
      path |-> <<"/", "w", "/", "L", "e", "o">>]}

\* extract_article_title: None (here <<>>) unless the host holds
\* 'wikipedia.org' and the path is /wiki/<title>...; else the title
extract_article_title(url) ==
    LET path_parts == Split(SubSeq(url.path, 2, Len(url.path)), "/")
    IN  IF ~\E i \in 1..(Len(url.netloc) - 2) :
               SubSeq(url.netloc, i, i + 2) = <<"wikipedia", ".", "org">>
        THEN <<>>
        ELSE IF Len(path_parts) >= 2 /\ path_parts[1] = <<"w", "i", "k", "i">>
        THEN path_parts[2]
        ELSE <<>>

\* get_cache_path: the characters that are alphanumeric or ' ', '-', '_';
\* rstrip() (cut after the last character that is not a space); ' '
\* replaced by '_'; then ".json" (one element)
get_cache_path(article_title) ==
    LET safe == SelectSeq(article_title, LAMBDA c : c \in Alnum \cup {" ", "-", "_"})
        kept == IF Strip(safe) = <<>> THEN <<>>
                ELSE SubSeq(safe, 1, LastIndex(safe, Strip(safe)[Len(Strip(safe))]))
    IN  [i \in 1..Len(kept) |-> IF kept[i] = " " THEN "_" ELSE kept[i]] \o <<".json">>

\* the titles and the cache files of the URLs
ArticleTitles == {extract_article_title(u) : u \in WikipediaUrls} \ {<<>>}
CachePaths == {get_cache_path(t) : t \in ArticleTitles}

\* cache_duration (24 hours), in ticks of the clock
CacheDuration == 2

\* the latest time on the clock
MaxClock == 2

\* a summary dict, and the cache file that holds it since mtime
Summary(title) == [kind |-> "summary", title |-> title]
NoSummary == [kind |-> "none", title |-> <<>>]
CacheFile(data, mtime) == [data |-> data, mtime |-> mtime]

\* is_cache_valid: the file exists and its age is less than cache_duration
is_cache_valid(files, now, cache_path) ==
    /\ files[cache_path].data.kind # "none"
    /\ now - files[cache_path].mtime < CacheDuration

\* load_from_cache: the data, None when the file does not load
load_from_cache(files, cache_path) ==
    IF files[cache_path].data.kind = "summary" THEN files[cache_path].data
    ELSE NoSummary

\* save_to_cache: the file holds the data from now on; a write cut short
\* leaves a file that does not load; a failed open changes nothing
save_to_cache(files, now, cache_path, data, write) ==
    IF write = "ok" THEN [files EXCEPT ![cache_path] = CacheFile(data, now)]
    ELSE IF write = "torn"
    THEN [files EXCEPT ![cache_path] = CacheFile([kind |-> "corrupt", title |-> <<>>], now)]
    ELSE files

\* get_summary serving whatever file exists, whatever its age
GetSummaryIgnoringAge(files, now, url, fetched, write) ==
    LET article_title == extract_article_title(url)
        cache_path == get_cache_path(article_title)
    IN  IF article_title = <<>>
        THEN [result |-> NoSummary, api |-> FALSE, files |-> files]
        ELSE IF load_from_cache(files, cache_path).kind = "summary"
        THEN [result |-> load_from_cache(files, cache_path), api |-> FALSE,
              files |-> files]
        ELSE IF fetched
        THEN [result |-> Summary(article_title), api |-> TRUE,
              files |-> save_to_cache(files, now, cache_path,
                                      Summary(article_title), write)]
        ELSE [result |-> NoSummary, api |-> TRUE, files |-> files]

\* get_summary: its result, whether fetch_from_wikipedia was called, and
\* the cache directory afterwards; fetched tells whether the API answers
get_summary(files, now, url, fetched, write) ==
    LET article_title == extract_article_title(url)
        cache_path == get_cache_path(article_title)
    IN  IF article_title = <<>>
        THEN [result |-> NoSummary, api |-> FALSE, files |-> files]
        ELSE IF /\ is_cache_valid(files, now, cache_path)
                /\ load_from_cache(files, cache_path).kind = "summary"
        THEN [result |-> load_from_cache(files, cache_path), api |-> FALSE,
              files |-> files]
        ELSE IF fetched
        THEN [result |-> Summary(article_title), api |-> TRUE,
              files |-> save_to_cache(files, now, cache_path,
                                      Summary(article_title), write)]
        ELSE [result |-> NoSummary, api |-> TRUE, files |-> files]

\* no get_summary call made yet
NoSummaryCall ==
    [made |-> FALSE, url |-> <<>>, at |-> 0, result |-> NoSummary, api |-> FALSE,
     saved |-> "none", before |-> CacheFile(NoSummary, 0), follows |-> "none"]

\* one get_summary call runs to its return.  Kept with it as history:
\* the time, the cache file of its title before the call, how its
\* save_to_cache went ("none" when there was none), and, when the call
\* before it was made at the same time for the same URL and fetched a
\* summary, how that call's save went (follows)
GetSummary(url, fetched, write) ==
    /\ wikipedia' =
           [wikipedia EXCEPT
               !.files = get_summary(wikipedia.files, wikipedia.now, url, fetched,
                                     write).files,
               !.call =
                   [made |-> TRUE, url |-> url, at |-> wikipedia.now,
                    result |-> get_summary(wikipedia.files, wikipedia.now, url,
                                           fetched, write).result,
                    api |-> get_summary(wikipedia.files, wikipedia.now, url,
                                        fetched, write).api,
                    saved |-> IF get_summary(wikipedia.files, wikipedia.now, url,
                                             fetched, write).api /\ fetched
                              THEN write ELSE "none",
                    before |-> IF extract_article_title(url) = <<>>
                               THEN CacheFile(NoSummary, 0)
                               ELSE wikipedia.files[get_cache_path(
                                        extract_article_title(url))],
                    follows |-> IF /\ wikipedia.call.url = url
                                   /\ wikipedia.call.at = wikipedia.now
                                THEN wikipedia.call.saved ELSE "none"]]
    /\ UNCHANGED <<scriptura, web, artwork, run, reflection, images>>

\* time passes
Tick ==
    /\ wikipedia.now < MaxClock
    /\ wikipedia' = [wikipedia EXCEPT !.now = @ + 1]
    /\ UNCHANGED <<scriptura, web, artwork, run, reflection, images>>

NextWikipedia ==
    \/ \E url \in WikipediaUrls, fetched \in BOOLEAN, write \in {"ok", "torn", "failed"} :
           GetSummary(url, fetched, write)
    \/ Tick

\* ------------------------------------------------------------------------
\* services/data_service.py: the image cache of DataService
\* ------------------------------------------------------------------------

\* the dates and formats images are asked for
ImageDates == {Today, <<2024, 1, 5>>}
ImageFormats == {"png", "bmp"}

\* images_cache_dir / f"{date_str}.{format}", within the cache directory,
\* with date_str = target_date.strftime("%Y-%m-%d")
ImagePath(target_date, format) ==
    LET two(n) == IF n < 10 THEN <<"0">> \o StrOf(n) ELSE StrOf(n)
    IN  StrOf(target_date[1]) \o <<"-">> \o two(target_date[2]) \o <<"-">>
        \o two(target_date[3]) \o <<".", format>>

\* generate_image that runs the subprocess whether or not the file exists
GenerateImageAlways(files, target_date, format, exit_ok, created) ==
    LET image_path == ImagePath(target_date, format)
        after == IF created THEN files \cup {image_path} ELSE files
    IN  [ran |-> TRUE,
         raised |-> ~exit_ok \/ image_path \notin after,
         path |-> IF exit_ok /\ image_path \in after THEN image_path ELSE <<>>,
         files |-> after]

\* generate_image: the cached file when it exists; else the subprocess,
\* which exits with 0 or not (exit_ok) and leaves the file or not
\* (created); the path is returned when the exit was 0 and the file
\* exists, an exception raised otherwise
generate_image(files, target_date, format, exit_ok, created) ==
    LET image_path == ImagePath(target_date, format)
        after == IF created THEN files \cup {image_path} ELSE files
    IN  IF image_path \in files
        THEN [ran |-> FALSE, raised |-> FALSE, path |-> image_path, files |-> files]
        ELSE [ran |-> TRUE,
              raised |-> ~exit_ok \/ image_path \notin after,
              path |-> IF exit_ok /\ image_path \in after THEN image_path ELSE <<>>,
              files |-> after]

\* get_cached_image_path: the path when the file exists, None (<<>>) else
get_cached_image_path(files, target_date, format) ==
    IF ImagePath(target_date, format) \in files THEN ImagePath(target_date, format)
    ELSE <<>>

\* no call made yet
NoImageCall ==
    [op |-> "none", path |-> <<>>, ran |-> FALSE, raised |-> FALSE,
     result |-> <<>>, had |-> FALSE, known |-> FALSE]

\* one generate_image call runs to its return or its raise.  History:
\* images.good holds the paths a call has returned and clear_cache has not
\* removed; had and known tell whether the file existed and whether its
\* path was in images.good when the call was made
GenerateImage(target_date, format, exit_ok, created) ==
    /\ images' =
           [files |-> generate_image(images.files, target_date, format,
                                     exit_ok, created).files,
            good |-> (images.good \cup
                      {generate_image(images.files, target_date, format,
                                      exit_ok, created).path}) \ {<<>>},
            call |-> [op |-> "generate_image",
                      path |-> ImagePath(target_date, format),
                      ran |-> generate_image(images.files, target_date, format,
                                             exit_ok, created).ran,
                      raised |-> generate_image(images.files, target_date, format,
                                                exit_ok, created).raised,
                      result |-> generate_image(images.files, target_date, format,
                                                exit_ok, created).path,
                      had |-> ImagePath(target_date, format) \in images.files,
                      known |-> ImagePath(target_date, format) \in images.good]]
    /\ UNCHANGED <<scriptura, web, artwork, run, reflection, wikipedia>>

\* one get_cached_image_path call
GetCachedImagePath(target_date, format) ==
    /\ images' =
           [images EXCEPT
               !.call = [op |-> "get_cached_image_path",
                         path |-> ImagePath(target_date, format),
                         ran |-> FALSE, raised |-> FALSE,
                         result |-> get_cached_image_path(images.files,
                                                          target_date, format),
                         had |-> ImagePath(target_date, format) \in images.files,
                         known |-> ImagePath(target_date, format) \in images.good]]
    /\ UNCHANGED <<scriptura, web, artwork, run, reflection, wikipedia>>

\* clear_cache(format): the files of glob("*.{format}"), or of glob("*")
\* when no format is given, are unlinked one by one; an unlink that raises
\* ends the loop, so any part of the list may be gone
ClearCache(format, unlinked) ==
    /\ unlinked \subseteq {f \in images.files : format = "None" \/ f[Len(f)] = format}
    /\ images' =
           [files |-> images.files \ unlinked,
            good |-> images.good \ unlinked,
            call |-> [NoImageCall EXCEPT !.op = "clear_cache"]]
    /\ UNCHANGED <<scriptura, web, artwork, run, reflection, wikipedia>>

NextImages ==
    \/ \E d \in ImageDates, f \in ImageFormats, exit_ok \in BOOLEAN, created \in BOOLEAN :
           GenerateImage(d, f, exit_ok, created)
    \/ \E d \in ImageDates, f \in ImageFormats : GetCachedImagePath(d, f)
    \/ \E f \in ImageFormats \cup {"None"} :
           \E unlinked \in SUBSET {ImagePath(d, g) : d \in ImageDates, g \in ImageFormats} :
               ClearCache(f, unlinked)

\* ------------------------------------------------------------------------
\* The specifications: one per component, the others as constructed
\* ------------------------------------------------------------------------

\* every component but the live one is as its constructor leaves it and
\* takes no call
Constructed(live) ==
    /\ live = "scriptura" \/
           /\ service = ScripturaService(DefaultBaseUrl, DefaultVersion)
           /\ provider = <<>>
           /\ readings = <<>> /\ enriched = <<>> /\ fetch_log = <<>>
           /\ pc = "idle" /\ earlier = NoCall
    /\ live = "web" \/
           /\ web = [at |-> "idle", endpoint |-> "", date_str |-> <<>>, status |-> 0]
           /\ artwork = [cached |-> {}, gone |-> {}, next |-> {}]
    /\ live = "main" \/
           run = [config |-> CHOOSE c \in Configs : TRUE, at |-> "start",
                  steps |-> <<>>, argv |-> <<>>, code |-> -1]
    /\ live = "reflection" \/
           reflection = [tokens_used |-> 0,
                         cache |-> [d \in ReflectionDates |-> Nothing],
                         calls |-> 0, billed |-> 0,
                         llm |-> [d \in ReflectionDates |-> 0],
                         written |-> [d \in ReflectionDates |-> Nothing],
                         last |-> [d \in ReflectionDates |-> "none"],
                         callers |-> [t \in Threads |-> IdleCaller]]
    /\ live = "wikipedia" \/
           wikipedia = [files |-> [p \in CachePaths |-> CacheFile(NoSummary, 0)],
                        now |-> 0, call |-> NoSummaryCall]
    /\ live = "images" \/
           images = [files |-> {}, good |-> {}, call |-> NoImageCall]

\* ScripturaService as constructed, before any provider
Init ==
    /\ service \in {ScripturaService(b, DefaultVersion) : b \in BaseUrls}
    /\ provider \in Providers
    /\ readings = <<>>
    /\ enriched = <<>>
    /\ fetch_log = <<>>
    /\ pc = "idle"
    /\ earlier = NoCall
    /\ Constructed("scriptura")

Next ==
    \/ \E list \in ReadingLists : Call(list)
    \/ GetReadingContents
    \/ Respond

Spec == Init /\ [][Next]_vars

\* the web server with whatever artwork the ArtworkManager holds
InitWeb ==
    /\ web = [at |-> "idle", endpoint |-> "", date_str |-> <<>>, status |-> 0]
    /\ \E dates \in {({Today} \cup {strptime(s).date : s \in DateStrs}) \ {<<>>}} :
           artwork \in [cached : SUBSET dates, gone : SUBSET dates, next : SUBSET dates]
    /\ artwork.gone \subseteq artwork.cached
    /\ Constructed("web")

SpecWeb == InitWeb /\ [][NextWeb]_vars

\* main() started with any of the configurations
InitMain ==
    /\ run \in [config : Configs, at : {"start"}, steps : {<<>>}, argv : {<<>>},
                code : {-1}]
    /\ Constructed("main")

SpecMain == InitMain /\ [][NextMain]_vars

\* a ReflectionService as constructed, with an empty cache directory
InitReflection ==
    /\ reflection = [tokens_used |-> 0,
                     cache |-> [d \in ReflectionDates |-> Nothing],
                     calls |-> 0, billed |-> 0,
                     llm |-> [d \in ReflectionDates |-> 0],
                     written |-> [d \in ReflectionDates |-> Nothing],
                     last |-> [d \in ReflectionDates |-> "none"],
                     callers |-> [t \in Threads |-> IdleCaller]]
    /\ Constructed("reflection")

SpecReflection == InitReflection /\ [][NextReflection]_vars

SpecReflectionThreads == InitReflection /\ [][NextReflectionThreads]_vars

\* a WikipediaService as constructed, with an empty cache directory
InitWikipedia ==
    /\ wikipedia = [files |-> [p \in CachePaths |-> CacheFile(NoSummary, 0)],
                    now |-> 0, call |-> NoSummaryCall]
    /\ Constructed("wikipedia")

SpecWikipedia == InitWikipedia /\ [][NextWikipedia]_vars

\* a DataService as constructed, over whatever the image cache holds
InitImages ==
    /\ images \in [files : SUBSET {ImagePath(d, f) : d \in ImageDates, f \in ImageFormats},
                   good : {{}}, call : {NoImageCall}]
    /\ Constructed("images")

SpecImages == InitImages /\ [][NextImages]_vars

\* ------------------------------------------------------------------------
\* Vocabulary of the properties
\* ------------------------------------------------------------------------

\* a call with one string reference has returned
OneDone == pc = "done" /\ Len(readings) = 1 /\ readings[1].isstr
Ref == readings[1].s
Text == enriched[1].text

\* "[Reading: ...]"
IsSentinel(t) == Len(t) >= 2 /\ t[1] = ReadingOpen /\ t[Len(t)] = ReadingClose

\* '<p class="reading-paragraph">...'
IsMarkup(t) == Len(t) >= 1 /\ t[1] = ParagraphOpen

\* sub occurs in s
HasSubstring(s, sub) ==
    \E i \in 0..(Len(s) - Len(sub)) : SubSeq(s, i + 1, i + Len(sub)) = sub

\* The provider answered (book, chapter) bc with a chapter whose verse texts
\* are all strings / did not answer with a body at all (HTTP error, timeout,
\* unknown chapter, or an empty object).
FetchSucceeded(bc) ==
    /\ bc \in DOMAIN provider
    /\ provider[bc].status = "ok"
    /\ provider[bc].body.kind = "chapter"
    /\ \A k \in DOMAIN provider[bc].body.verses :
           provider[bc].body.verses[k].type = "str"

FetchFailed(bc) ==
    \/ bc \notin DOMAIN provider
    \/ provider[bc].status # "ok"
    \/ provider[bc].body.kind = "empty"

\* the verse numbers lo..hi that chapter bc holds with a text, ascending,
\* as verse records; none when the fetch of bc failed
RECURSIVE Ascending(_)
Ascending(S) ==
    IF S = {} THEN <<>>
    ELSE LET m == CHOOSE x \in S : \A y \in S : x <= y
         IN  <<m>> \o Ascending(S \ {m})

HeldVerses(bc, lo, hi) ==
    IF ~FetchSucceeded(bc) THEN <<>>
    ELSE LET held == provider[bc].body.verses
             ns == Ascending({n \in lo..hi : /\ StrOf(n) \in DOMAIN held
                                             /\ held[StrOf(n)].s # <<>>})
         IN  [i \in 1..Len(ns) |->
                 [verse |-> StrOf(ns[i]), text |-> held[StrOf(ns[i])]]]

\* the largest integer verse key chapter bc holds, 0 when it holds none
LastVerse(bc) ==
    LET ns == {DigitsValue(k) : k \in {v \in DOMAIN provider[bc].body.verses :
                                          \A i \in 1..Len(v) : v[i] \in Digits}}
    IN  IF ns = {} THEN 0 ELSE CHOOSE m \in ns : \A n \in ns : n <= m

\* the returned text presents exactly the verse list vs (the sentinel when
\* the list is empty)
Presents(t, vs) ==
    IF vs = <<>> THEN IsSentinel(t) ELSE t = _format_reading_paragraph(vs)

\* the verses segment by segment, segment i read from the chapter of the
\* i-th fetch
RECURSIVE SegmentsInOrder(_, _)
SegmentsInOrder(segs, i) ==
    IF i > Len(segs) THEN <<>>
    ELSE HeldVerses(fetch_log[i], segs[i].vp.lo, segs[i].vp.hi)
         \o SegmentsInOrder(segs, i + 1)

\* start chapter from v1 to its last verse, then end chapter from 1 to v2
CrossChapterInOrder(x) ==
    HeldVerses(fetch_log[1], x.v1,
               IF FetchSucceeded(fetch_log[1]) THEN LastVerse(fetch_log[1]) ELSE 0)
    \o HeldVerses(fetch_log[2], 1, x.v2)

AllFetched(P(_)) == \A i \in 1..Len(fetch_log) : P(fetch_log[i])
FetchSucceededOrFailed(bc) == FetchSucceeded(bc) \/ FetchFailed(bc)

\* ------------------------------------------------------------------------
\* C1..C10
\* ------------------------------------------------------------------------

\* C1: whatever the reference (the empty string included) and whatever the
\* provider does (answer, HTTP error, timeout, malformed body), the text
\* returned for a string reference is either the "[Reading: ...]" sentinel
\* or markup that begins with '<p class="reading-paragraph">'.
C1_SentinelOrMarkup ==
    pc = "done" =>
        \A i \in 1..Len(readings) :
            readings[i].isstr =>
                IsSentinel(enriched[i].text) \/ IsMarkup(enriched[i].text)

\* the empty reference came back as "[Reading: ]"
C1_Witness == OneDone /\ Ref = <<>> /\ Text = <<ReadingOpen, ReadingClose>>

\* C2 (as claimed): a returned sentinel is "[Reading: " + the reference
\* exactly as the caller passed it + "]", on every route.
C2_SentinelKeepsOriginal ==
    pc = "done" =>
        \A i \in 1..Len(readings) :
            (readings[i].isstr /\ IsSentinel(enriched[i].text)) =>
                enriched[i].text = Sentinel(readings[i].s)

\* C3 (as claimed): a reference containing " or " comes back with
\* is_alternative = true, text = null and one alternative per branch.
C3_AlternativesSplit ==
    (OneDone /\ HasSubstring(Ref, sOr)) =>
        /\ {"is_alternative", "alternatives"} \subseteq DOMAIN enriched[1]
        /\ enriched[1].is_alternative = TRUE
        /\ Len(enriched[1].alternatives) = 2

\* C4 (as claimed): "John C:A-end", chapter fetched, returns the verses A to
\* the chapter's largest integer verse key (verse A alone when it has none).
C4_OpenEndedRange ==
    \A c \in ChapterNums, a \in OpenEndStarts :
        (/\ OneDone
         /\ Ref = BookChapterColon(sJohn, c) \o OpenEndText(a)
         /\ FetchSucceeded(<<sJohn, c>>)
         /\ HeldVerses(<<sJohn, c>>, a, a) # <<>>)
        => Text = _format_reading_paragraph(
                      HeldVerses(<<sJohn, c>>, a,
                                 IF LastVerse(<<sJohn, c>>) = 0 THEN a
                                 ELSE LastVerse(<<sJohn, c>>)))

\* C5: a discontinuous reference whose fetches all succeed presents its
\* segments in the order written, each segment's verses ascending; nothing
\* is sorted across segments ("Psalm 1:2-3, 1" gives 2, 3, 1).
C5_SegmentsInSourceOrder ==
    \A segs \in DiscontinuousCases :
        (/\ OneDone
         /\ \E sep \in CommaSeparators : Ref = DiscontinuousText(segs, sep)
         /\ AllFetched(FetchSucceeded))
        => /\ Len(fetch_log) = Len(segs)
           /\ Presents(Text, SegmentsInOrder(segs, 1))

\* "Psalm 1:2-3, 1" came back as verses 2, 3, 1 of Psalms 1
C5_Witness ==
    /\ OneDone
    /\ Ref = <<"P", "s", "a", "l", "m", " ", "1", ":", "2", "-", "3", ",", " ", "1">>
    /\ Text = _format_reading_paragraph(
                  <<[verse |-> <<"2">>, text |-> Psalms1Verses[<<"2">>]],
                    [verse |-> <<"3">>, text |-> Psalms1Verses[<<"3">>]],
                    [verse |-> <<"1">>, text |-> Psalms1Verses[<<"1">>]]>>)

\* C6: "Book C1:V1-C2:V2" with C1 # C2, both fetches succeeding, presents
\* chapter C1 from V1 to its largest integer verse key, ascending, and then
\* chapter C2 from 1 to V2, ascending.
C6_CrossChapterOrder ==
    \A x \in CrossChapterCases :
        (/\ OneDone
         /\ Ref = CrossChapterText(x)
         /\ x.c1 # x.c2
         /\ AllFetched(FetchSucceeded))
        => /\ Len(fetch_log) = 2
           /\ fetch_log[1][2] = StrOf(x.c1)
           /\ fetch_log[2][2] = StrOf(x.c2)
           /\ Presents(Text, CrossChapterInOrder(x))

\* "John 1:2-2:1" came back as John 1:2, 1:3 and John 2:1
C6_Witness ==
    /\ OneDone
    /\ Ref = <<"J", "o", "h", "n", " ", "1", ":", "2", "-", "2", ":", "1">>
    /\ Text = _format_reading_paragraph(
                  <<[verse |-> <<"2">>, text |-> John1Verses[<<"2">>]],
                    [verse |-> <<"3">>, text |-> John1Verses[<<"3">>]],
                    [verse |-> <<"1">>, text |-> John2Verses[<<"1">>]]>>)

\* C7 (as claimed): a letter suffix on any verse endpoint is dropped, so
\* "John C:2a", "John C:1-2a" and "John C:1a-2" present the verses of the
\* suffix-free verse part.
C7_SuffixesStripped ==
    \A c \in ChapterNums, vp \in SuffixedVerseParts :
        (/\ OneDone
         /\ Ref = BookChapterColon(sJohn, c) \o VersePartText(vp)
         /\ FetchSucceeded(<<sJohn, c>>))
        => Presents(Text, HeldVerses(<<sJohn, c>>, vp.lo, vp.hi))

\* C8 (as claimed): _clean_reference takes off one known prefix and no more.
StripOnePrefix(reference) ==
    LET t == Strip(reference)
        known == {i \in 1..Len(prefixes_to_remove) :
                     StartsWith(t, prefixes_to_remove[i])}
    IN  IF known = {} THEN t
        ELSE Strip(DropFirst(t, Len(prefixes_to_remove[CHOOSE i \in known : TRUE])))

C8_OnePrefixOnly ==
    pc = "done" =>
        \A i \in 1..Len(readings) :
            readings[i].isstr =>
                _clean_reference(readings[i].s) = StripOnePrefix(readings[i].s)

\* C9 (as claimed): no chapter fetch is made with a book synonym that the
\* lookup maps; "Psalm", "Ps", "PSALM", "PSALMS" are fetched as "Psalms".
C9_FetchedBookNormalized ==
    pc = "done" =>
        \A i \in 1..Len(fetch_log) :
            fetch_log[i][1] \notin {sPsalm, sPs, sPSALM, sPSALMS}

\* C10: in a discontinuous or cross-chapter reference written with digits
\* only, where some fetch fails (HTTP error, timeout, unknown chapter, empty
\* body) and every other fetch succeeds, every segment is still fetched, the
\* failed ones contribute nothing, the others are presented in source
\* order, and the sentinel comes back only when nothing was contributed.
SomeFetchFailed == \E i \in 1..Len(fetch_log) : FetchFailed(fetch_log[i])

C10_FailedSegmentOmitted ==
    /\ \A segs \in DiscontinuousCases :
           (/\ OneDone
            /\ \E sep \in CommaSeparators : Ref = DiscontinuousText(segs, sep)
            /\ AllFetched(FetchSucceededOrFailed)
            /\ SomeFetchFailed)
           => /\ Len(fetch_log) = Len(segs)
              /\ Presents(Text, SegmentsInOrder(segs, 1))
              /\ IsSentinel(Text) => SegmentsInOrder(segs, 1) = <<>>
    /\ \A x \in CrossChapterCases :
           (/\ OneDone
            /\ Ref = CrossChapterText(x)
            /\ x.c1 # x.c2
            /\ AllFetched(FetchSucceededOrFailed)
            /\ SomeFetchFailed)
           => /\ Len(fetch_log) = 2
              /\ Presents(Text, CrossChapterInOrder(x))
              /\ IsSentinel(Text) => CrossChapterInOrder(x) = <<>>

\* "John 1:1, John 2:3" with John 1 timed out came back as John 2:3 alone
C10_Witness ==
    /\ OneDone
    /\ Ref = <<"J", "o", "h", "n", " ", "1", ":", "1", ",", " ",
               "J", "o", "h", "n", " ", "2", ":", "3">>
    /\ provider[<<sJohn, <<"1">>>>] = Timeout
    /\ Text = _format_reading_paragraph(
                  <<[verse |-> <<"3">>, text |-> John2Verses[<<"3">>]]>>)

\* ------------------------------------------------------------------------
\* C11..C20
\* ------------------------------------------------------------------------

\* the provider with every verses-less body replaced by an HTTP error
MalformedAsFailed(prov) ==
    [bc \in DOMAIN prov |->
        IF prov[bc].status = "ok" /\ prov[bc].body.kind = "noverses"
        THEN HttpError
        ELSE prov[bc]]

\* C11 (as claimed): a non-empty body without 'verses' is treated as a
\* failed fetch: the text returned is the text that would be returned had
\* every such fetch failed, on every route.
C11_MalformedAsFailed ==
    OneDone => Text = _get_reading_text(Ref, MalformedAsFailed(provider)).text

\* the (book, chapter) a segment head "Book C:" names, book normalised
HeadTarget(head) ==
    LET bc == CHOOSE x \in BookNames \X {<<"1">>, <<"2">>, <<"3">>} :
                  head = BookChapterColon(x[1], x[2])
    IN  <<_normalize_book_name(bc[1]), bc[2]>>

\* the (book, chapter) of the most recent segment up to i that names them
RECURSIVE PriorTarget(_, _)
PriorTarget(segs, i) ==
    IF segs[i].head # <<>> THEN HeadTarget(segs[i].head)
    ELSE PriorTarget(segs, i - 1)

\* C12 (as claimed): a bare segment is read from the book and chapter of the
\* most recent segment that names them.
C12_BareUsesPrior ==
    \A segs \in DiscontinuousCases :
        (/\ OneDone
         /\ \E sep \in CommaSeparators : Ref = DiscontinuousText(segs, sep))
        => \A i \in 1..Len(fetch_log) : fetch_log[i] = PriorTarget(segs, i)

\* C12 (amended): a segment that names its book and chapter is read from
\* them, and a bare segment is read from the book and chapter of the FIRST
\* segment, whatever the segments in between name.
C12_BareUsesFirst ==
    \A segs \in DiscontinuousCases :
        (/\ OneDone
         /\ \E sep \in CommaSeparators : Ref = DiscontinuousText(segs, sep))
        => \A i \in 1..Len(fetch_log) :
               fetch_log[i] = IF segs[i].head # <<>>
                              THEN HeadTarget(segs[i].head)
                              ELSE HeadTarget(segs[1].head)

\* "Psalm 1:1, John 2:3, 2": the bare "2" was read from Psalms 1, and
\* Psalms 1:2 is what the text ends with
C12_Witness ==
    /\ OneDone
    /\ Ref = <<"P", "s", "a", "l", "m", " ", "1", ":", "1", ",", " ",
               "J", "o", "h", "n", " ", "2", ":", "3", ",", " ", "2">>
    /\ fetch_log = <<<<sPsalms, <<"1">>>>, <<sJohn, <<"2">>>>, <<sPsalms, <<"1">>>>>>
    /\ Text = _format_reading_paragraph(
                  <<[verse |-> <<"1">>, text |-> Psalms1Verses[<<"1">>]],
                    [verse |-> <<"3">>, text |-> John2Verses[<<"3">>]],
                    [verse |-> <<"2">>, text |-> Psalms1Verses[<<"2">>]]>>)

\* C13 (as claimed): while one reference is resolved, no (book, chapter)
\* pair is fetched twice.
C13_OneFetchPerChapter ==
    OneDone =>
        \A i, j \in 1..Len(fetch_log) : i # j => fetch_log[i] # fetch_log[j]

\* chapter bc, fetched successfully, holds no verse n for some n of lo..hi
SomeAbsent(bc, lo, hi) ==
    /\ FetchSucceeded(bc)
    /\ \E n \in lo..hi : StrOf(n) \notin DOMAIN provider[bc].body.verses

\* some segment asks its chapter for a verse the chapter does not hold
SomeSegmentAbsent(segs) ==
    \E i \in 1..Len(segs) : SomeAbsent(fetch_log[i], segs[i].vp.lo, segs[i].vp.hi)

\* C14: when a requested verse number is absent from the chapter fetched,
\* the call still returns, and the text presents the verses that are held,
\* in the order they would have with no verse missing (the sentinel when
\* none is held): in "John C:A-B" and "John C:A", in the segments of a
\* discontinuous reference, and in both halves of a cross-chapter range.
C14_AbsentVerseSkipped ==
    /\ \A c \in ChapterNums, vp \in PlainVerseParts :
           (/\ OneDone
            /\ Ref = BookChapterColon(sJohn, c) \o VersePartText(vp)
            /\ SomeAbsent(<<sJohn, c>>, vp.lo, vp.hi))
           => Presents(Text, HeldVerses(<<sJohn, c>>, vp.lo, vp.hi))
    /\ \A segs \in DiscontinuousCases :
           (/\ OneDone
            /\ \E sep \in CommaSeparators : Ref = DiscontinuousText(segs, sep)
            /\ AllFetched(FetchSucceeded)
            /\ Len(fetch_log) = Len(segs)
            /\ SomeSegmentAbsent(segs))
           => Presents(Text, SegmentsInOrder(segs, 1))
    /\ \A x \in CrossChapterCases :
           (/\ OneDone
            /\ Ref = CrossChapterText(x)
            /\ x.c1 # x.c2
            /\ AllFetched(FetchSucceeded)
            /\ Len(fetch_log) = 2
            /\ \/ SomeAbsent(fetch_log[1], x.v1, LastVerse(fetch_log[1]))
               \/ SomeAbsent(fetch_log[2], 1, x.v2))
           => Presents(Text, CrossChapterInOrder(x))

\* "John 1:1-3" of a chapter that holds 1, 3 and 10 came back as 1 and 3
C14_Witness ==
    /\ OneDone
    /\ Ref = <<"J", "o", "h", "n", " ", "1", ":", "1", "-", "3">>
    /\ provider[<<sJohn, <<"1">>>>] = Ok(ChapterDict(GappyVerses))
    /\ Text = _format_reading_paragraph(
                  <<[verse |-> <<"1">>, text |-> GappyVerses[<<"1">>]],
                    [verse |-> <<"3">>, text |-> GappyVerses[<<"3">>]]>>)

\* C15: get_reading_contents returns one entry per item, in the order of the
\* items: a string item gives an entry whose 'reference' is that string
\* exactly and whose 'text' is what the reference resolves to on its own
\* (the sentinel when it does not resolve), any other item is passed through.
C15_OneEntryPerItem ==
    pc = "done" =>
        /\ Len(enriched) = Len(readings)
        /\ \A i \in 1..Len(readings) :
               IF readings[i].isstr
               THEN /\ DOMAIN enriched[i] = {"reference", "text"}
                    /\ enriched[i].reference = readings[i].s
                    /\ enriched[i].text =
                           _get_reading_text(readings[i].s, provider).text
               ELSE enriched[i] = readings[i]

\* ['John 3:1', <non-string>, 'John 2:1-2'] with John 3 unknown and John 2
\* held: the sentinel first, the item passed through, John 2:1-2 third
C15_Witness ==
    /\ pc = "done"
    /\ Len(readings) = 3
    /\ IsSentinel(enriched[1].text)
    /\ enriched[2] = OtherItem
    /\ enriched[3].reference = BookChapterColon(sJohn, <<"2">>) \o <<"1", "-", "2">>
    /\ IsMarkup(enriched[3].text)

Synonym(book) ==
    IF book \in {sPsalm, sPs, sPSALM, sPSALMS} THEN sPsalms ELSE book

\* no ":", no "," and no " or "
IsBareBook(r) ==
    ~Contains(r, ":") /\ ~Contains(r, ",") /\ ~HasSubstring(r, sOr)

\* C17: a reference without ":", "," and " or " parses to chapter "1",
\* verse "1" and the book that the trimmed reference names, synonym
\* replaced; resolving it fetches that book's chapter 1 once and presents
\* its verse 1.
C17_BareBookParse ==
    /\ pc = "done" =>
           \A i \in 1..Len(readings) :
               (readings[i].isstr /\ IsBareBook(readings[i].s)) =>
                   _parse_reference(readings[i].s) =
                       [complex |-> FALSE,
                        book |-> Synonym(Strip(readings[i].s)),
                        chapter |-> <<"1">>,
                        verse |-> <<"1">>]
    /\ (OneDone /\ IsBareBook(Ref) /\ Ref \in BookNames) =>
           /\ fetch_log = <<<<Synonym(Ref), <<"1">>>>>>
           /\ Presents(Text, HeldVerses(fetch_log[1], 1, 1))

\* "Ps" was fetched as Psalms 1 and came back as Psalms 1:1
C17_Witness ==
    /\ OneDone
    /\ Ref = sPs
    /\ fetch_log = <<<<sPsalms, <<"1">>>>>>
    /\ Text = _format_reading_paragraph(
                  <<[verse |-> <<"1">>, text |-> Psalms1Verses[<<"1">>]]>>)

\* exactly one ":", no ",", and a space in what stands before the ":"
HasOneColon(r) ==
    /\ Count(r, ":") = 1
    /\ ~Contains(r, ",")
    /\ Contains(Strip(SubSeq(r, 1, FirstIndex(r, ":") - 1)), " ")

\* what is written in such a reference: the text before the last space that
\* precedes the colon, the token between that space and the colon, and the
\* text after the colon, each trimmed
Written(r) ==
    LET colon == FirstIndex(r, ":")
        head == Strip(SubSeq(r, 1, colon - 1))
        space == LastIndex(head, " ")
    IN  [book |-> Strip(SubSeq(head, 1, space - 1)),
         chapter |-> SubSeq(head, space + 1, Len(head)),
         verse |-> Strip(SubSeq(r, colon + 1, Len(r)))]

\* C18 (as claimed): a comma-free reference with one colon parses to the
\* book before the last space preceding the colon (synonym replaced), the
\* chapter token after that space, and the text after the colon as the
\* verse part.
C18_VersePartAsWritten ==
    pc = "done" =>
        \A i \in 1..Len(readings) :
            (readings[i].isstr /\ HasOneColon(readings[i].s)) =>
                _parse_reference(readings[i].s) =
                    [complex |-> FALSE,
                     book |-> Synonym(Written(readings[i].s).book),
                     chapter |-> Written(readings[i].s).chapter,
                     verse |-> Written(readings[i].s).verse]

\* the verse part with the letters after a single verse, or after the end
\* of a range, taken off
SuffixFree(verse) ==
    IF Contains(verse, "-")
    THEN SubSeq(verse, 1, FirstIndex(verse, "-"))
         \o SelectSeq(SubSeq(verse, FirstIndex(verse, "-") + 1, Len(verse)),
                      LAMBDA c : c \in Digits)
    ELSE SelectSeq(verse, LAMBDA c : c \in Digits)

\* C18 (amended): book and chapter as claimed; the verse part is the text
\* after the colon with the non-digits of a single verse, or of the end of
\* a range, removed ("2a" gives "2", "1-2a" gives "1-2", "1a-2" stays
\* "1a-2").  Resolving the reference fetches that book and chapter once.
C18_VersePartCleaned ==
    /\ pc = "done" =>
           \A i \in 1..Len(readings) :
               (readings[i].isstr /\ HasOneColon(readings[i].s)) =>
                   _parse_reference(readings[i].s) =
                       [complex |-> FALSE,
                        book |-> Synonym(Written(readings[i].s).book),
                        chapter |-> Written(readings[i].s).chapter,
                        verse |-> SuffixFree(Written(readings[i].s).verse)]
    /\ (OneDone /\ HasOneColon(Ref)) =>
           fetch_log = <<<<Synonym(Written(Ref).book), Written(Ref).chapter>>>>

\* "1 John 1:1-2" was fetched as book "1 John", chapter "1", and "John 2:2a"
\* parses to ("John", "2", "2")
C18_Witness ==
    /\ OneDone
    /\ Ref = <<"1", " ", "J", "o", "h", "n", " ", "1", ":", "1", "-", "2">>
    /\ fetch_log = <<<<s1John, <<"1">>>>>>
    /\ _parse_reference(Ref) =
           [complex |-> FALSE, book |-> s1John, chapter |-> <<"1">>,
            verse |-> <<"1", "-", "2">>]
    /\ _parse_reference(<<"J", "o", "h", "n", " ", "2", ":", "2", "a">>) =
           [complex |-> FALSE, book |-> sJohn, chapter |-> <<"2">>,
            verse |-> <<"2">>]

\* the verse held as number n by chapter bc has a text with / without a
\* pilcrow
VerseText(bc, n) == Strip(provider[bc].body.verses[StrOf(n)].s)

\* the number of pieces, not empty once trimmed, that the pilcrows cut a
\* text into
Pieces(text) ==
    Cardinality({i \in 1..Len(Split(text, Pilcrow)) :
                    Strip(Split(text, Pilcrow)[i]) # <<>>})

\* C19 (as claimed): "John C:N" of a verse whose text holds a pilcrow comes
\* back with a paragraph break before every non-empty piece but the first,
\* and with the verse-number label once, on the first piece only.
C19_LabelOnFirstPartOnly ==
    \A c \in ChapterNums, n \in 1..MaxVerse :
        (/\ OneDone
         /\ Ref = BookChapterColon(sJohn, c) \o StrOf(n)
         /\ HeldVerses(<<sJohn, c>>, n, n) # <<>>
         /\ Contains(VerseText(<<sJohn, c>>, n), Pilcrow)
         /\ Pieces(VerseText(<<sJohn, c>>, n)) >= 1)
        => /\ IsMarkup(Text)
           /\ Count(Text, ParagraphBreak) = Pieces(VerseText(<<sJohn, c>>, n)) - 1
           /\ Count(Text, NowrapOpen) = 1

\* the span-closing tags of a text, as positions, ascending
SpanCloses(t) == Ascending({i \in 1..Len(t) : t[i] = SpanClose})

\* the first k words of a list of words
FirstWords(words, k) == SubSeq(words, 1, IF Len(words) < k THEN Len(words) ELSE k)

\* C20: "John C:N" of a verse whose text holds no pilcrow comes back as one
\* paragraph with one verse span: the no-wrap span holds the verse number
\* and then the first two words of the text (all of the text when it has
\* fewer than two), and the words after the no-wrap span are the remaining
\* words of the text, in their order.
C20_NowrapFirstTwoWords ==
    \A c \in ChapterNums, n \in 1..MaxVerse :
        (/\ OneDone
         /\ Ref = BookChapterColon(sJohn, c) \o StrOf(n)
         /\ HeldVerses(<<sJohn, c>>, n, n) # <<>>
         /\ ~Contains(VerseText(<<sJohn, c>>, n), Pilcrow))
        => /\ Len(SpanCloses(Text)) = 3
           /\ SubSeq(Text, 1, SpanCloses(Text)[1]) =
                  <<ParagraphOpen, VerseSpanOpen, NowrapOpen>> \o StrOf(n)
                  \o <<SpanClose>>
           /\ Words(SubSeq(Text, SpanCloses(Text)[1] + 1, SpanCloses(Text)[2] - 1))
                  = FirstWords(Words(VerseText(<<sJohn, c>>, n)), 2)
           /\ Words(SubSeq(Text, SpanCloses(Text)[1] + 1, SpanCloses(Text)[2] - 1))
              \o Words(SubSeq(Text, SpanCloses(Text)[2] + 1, SpanCloses(Text)[3] - 1))
                  = Words(VerseText(<<sJohn, c>>, n))
           /\ SubSeq(Text, SpanCloses(Text)[3], Len(Text)) =
                  <<SpanClose, ParagraphClose>>
           /\ Len(Words(VerseText(<<sJohn, c>>, n))) < 2 =>
                  SubSeq(Text, SpanCloses(Text)[1] + 1, SpanCloses(Text)[2] - 1)
                      = <<" ">> \o VerseText(<<sJohn, c>>, n)

\* "John 2:1", held as "And the  third day", came back with "1 And the" in
\* the no-wrap span and "third day" after it
C20_Witness ==
    /\ OneDone
    /\ Ref = <<"J", "o", "h", "n", " ", "2", ":", "1">>
    /\ Text = <<ParagraphOpen, VerseSpanOpen, NowrapOpen, "1", SpanClose,
                " ", "And", " ", "the", SpanClose,
                " ", "third", " ", "day", SpanClose, ParagraphClose>>

\* ------------------------------------------------------------------------
\* C21..C30
\* ------------------------------------------------------------------------

\* the places in a text where a paragraph opens or closes, ascending
ParagraphMarks(t) ==
    Ascending({i \in 1..Len(t) :
                  t[i] \in {ParagraphOpen, ParagraphBreak, ParagraphClose}})

\* one or more paragraphs, opened and closed in turn, each holding at least
\* one verse span
WellFormedParagraphs(t) ==
    /\ Len(ParagraphMarks(t)) >= 2
    /\ \A k \in 1..Len(ParagraphMarks(t)) :
           t[ParagraphMarks(t)[k]] =
               IF k = 1 THEN ParagraphOpen
               ELSE IF k = Len(ParagraphMarks(t)) THEN ParagraphClose
               ELSE ParagraphBreak
    /\ ParagraphMarks(t)[1] = 1
    /\ ParagraphMarks(t)[Len(ParagraphMarks(t))] = Len(t)
    /\ \A k \in 1..(Len(ParagraphMarks(t)) - 1) :
           \E i \in (ParagraphMarks(t)[k] + 1)..(ParagraphMarks(t)[k + 1] - 1) :
               t[i] = VerseSpanOpen

\* C21 (as claimed): a text that is not the sentinel is one or more
\* paragraph wrappers, balanced and never nested, each with at least one
\* verse span; it is never an empty paragraph.
C21_ParagraphsHoldVerses ==
    pc = "done" =>
        \A i \in 1..Len(readings) :
            (readings[i].isstr /\ ~IsSentinel(enriched[i].text)) =>
                WellFormedParagraphs(enriched[i].text)

\* the path the data service gives the endpoint of the answered request
ServedPath ==
    IF web.endpoint \in {"/api/artwork/today", "/api/next-artwork/today"}
    THEN (IF web.endpoint = "/api/artwork/today" THEN get_artwork_path(Today)
          ELSE get_next_artwork_info(Today))
    ELSE IF web.endpoint = "/api/artwork/<date_str>"
    THEN get_artwork_path(strptime(web.date_str).date)
    ELSE get_next_artwork_info(strptime(web.date_str).date)

\* the answered request names a date that does not parse
InvalidDate ==
    /\ web.endpoint \in {"/api/artwork/<date_str>", "/api/next-artwork/<date_str>"}
    /\ strptime(web.date_str).raised = "ValueError"

\* C22 (as claimed): an artwork endpoint answers 400 to a date that does
\* not parse, 404 when the data service has no artwork path, and 500 only
\* when something unexpected is raised (here: the file is not on the disk).
C22_NoArtworkIs404 ==
    web.at = "responded" =>
        IF InvalidDate THEN web.status = 400
        ELSE /\ ServedPath = "None" => web.status = 404
             /\ web.status = 500 => ServedPath = "gone"

\* the names of the steps main() has taken, in order
StepNames == [i \in 1..Len(run.steps) |-> run.steps[i].step]

\* C23: the steps of main() are taken in the order update, render, display
\* (then shutdown): render follows update whatever update returned, display
\* follows only a render that returned, a raising render leaves main()
\* without a return code; main() returns 1 exactly when display_image
\* returned False, and then without a shutdown; the shutdown command is
\* issued exactly after a successful display with shutdown_after_display
\* true, and main() returns 0 also when the shutdown fails.
C23_UpdateRenderDisplay ==
    /\ StepNames = SubSeq(<<"update", "render", "display", "shutdown">>, 1,
                          Len(run.steps))
    /\ run.at = "start" <=> run.steps = <<>>
    /\ run.at = "updated" <=> Len(run.steps) = 1
    /\ run.at = "rendered" <=> (Len(run.steps) = 2 /\ run.steps[2].ok)
    /\ run.at = "raised" <=> (Len(run.steps) = 2 /\ ~run.steps[2].ok)
    /\ run.at = "returned" <=> Len(run.steps) >= 3
    /\ run.at # "returned" => run.code = -1
    /\ run.at = "returned" =>
           /\ run.steps[2].ok
           /\ run.code = IF run.steps[3].ok THEN 0 ELSE 1
           /\ Len(run.steps) = 4 <=>
                  (run.steps[3].ok /\ run.config.shutdown_after_display = "True")

\* main() returned 0 after a shutdown command that failed, and the update
\* had returned False
C23_Witness ==
    /\ run.at = "returned" /\ run.code = 0
    /\ Len(run.steps) = 4 /\ ~run.steps[4].ok /\ ~run.steps[1].ok

\* C24: get_reflection checks the cache first.  In calls made one after
\* the other, for any dates: a call for a date for which an earlier call
\* has generated a reflection and written it to the cache returns that
\* reflection without an LLM call and leaves tokens_used as it found it;
\* tokens_used never decreases, and changes only where an LLM response is
\* counted.
C24_CachedReflectionServed ==
    [][/\ reflection'.tokens_used >= reflection.tokens_used
       /\ reflection'.tokens_used # reflection.tokens_used =>
              \E t \in Threads : /\ reflection.callers[t].at = "store"
                                 /\ reflection.callers[t].called
                                 /\ reflection'.tokens_used - reflection.tokens_used
                                        = reflection.callers[t].usage
       /\ \A t \in Threads :
              (/\ reflection'.callers[t].at = "done"
               /\ reflection'.callers[t].known.kind = "reflection") =>
                  /\ reflection'.callers[t].result = reflection'.callers[t].known
                  /\ ~reflection'.callers[t].called
                  /\ reflection'.llm = reflection.llm
                  /\ reflection'.tokens_used = reflection'.callers[t].before]_vars

\* the third call is served from the cache: the first generated and cached
\* the reflection of its date, the second was for the other date
C24_Witness ==
    /\ reflection.calls = 3
    /\ reflection.callers[1].at = "done"
    /\ reflection.callers[1].known.kind = "reflection"
    /\ reflection.callers[1].result = reflection.callers[1].known
    /\ \A d \in ReflectionDates : reflection.last[d] # "none"
    /\ reflection.tokens_used > 0

\* the generation of the call thread t is in has failed: the LLM call
\* raised, or its response was counted and then could not be used
GenerationFailed(t) ==
    /\ reflection.callers[t].called
    /\ reflection.callers[t].usage = 0 \/ ~reflection.callers[t].usable

\* C25: get_reflection ends with a result, never an exception: when the
\* generation failed, and only then, the result is the fallback, marked
\* fallback = true with tokens_used = 0; no cache file ever holds a
\* fallback, and the call that follows a fallback for the same date calls
\* the LLM again.
C25_FallbackNotCached ==
    /\ \A d \in ReflectionDates : ~reflection.cache[d].fallback
    /\ \A t \in Threads :
           reflection.callers[t].at = "done" =>
               /\ reflection.callers[t].result.kind = "reflection"
               /\ reflection.callers[t].result.date = reflection.callers[t].date
               /\ reflection.callers[t].result.fallback <=> GenerationFailed(t)
               /\ reflection.callers[t].result.fallback =>
                      /\ reflection.callers[t].result.tokens_used = 0
                      /\ reflection.cache[reflection.callers[t].date]
                             # reflection.callers[t].result
               /\ reflection.callers[t].retry => reflection.callers[t].called

\* a call returned a fallback although its LLM response had been counted,
\* and the next call for the date generated a reflection
C25_Witness ==
    /\ reflection.callers[1].at = "done"
    /\ reflection.callers[1].retry
    /\ ~reflection.callers[1].result.fallback
    /\ reflection.callers[1].result.kind = "reflection"
    /\ reflection.tokens_used > reflection.callers[1].usage
    /\ reflection.calls = 2

\* the cache file of the call's title was a valid entry when the call was
\* made: it existed, its age was less than cache_duration, and it loads
ValidBefore ==
    /\ wikipedia.call.before.data.kind = "summary"
    /\ wikipedia.call.at - wikipedia.call.before.mtime < CacheDuration

\* what every get_summary call for an article does: the API is called
\* exactly when there was no valid entry; a valid entry is returned as it
\* is; a fetch that fails gives None
ApiExactlyWithoutValidEntry ==
    (wikipedia.call.made /\ extract_article_title(wikipedia.call.url) # <<>>) =>
        /\ wikipedia.call.api <=> ~ValidBefore
        /\ ValidBefore => wikipedia.call.result = wikipedia.call.before.data
        /\ (wikipedia.call.api /\ wikipedia.call.saved = "none") =>
               wikipedia.call.result = NoSummary

\* C26 (as claimed): get_summary calls the API exactly when there is no
\* valid cache entry, never serves an expired entry, and a call that
\* immediately follows a successful fetch for the same URL is served from
\* the cache.
C26_FetchThenCached ==
    /\ ApiExactlyWithoutValidEntry
    /\ wikipedia.call.follows # "none" =>
           ~wikipedia.call.api /\ wikipedia.call.result.kind = "summary"

\* C26 (amended): the same, with the following call served from the cache
\* when the write of the fetched summary went through; after a write that
\* failed or was cut short the following call fetches again.
C26_SavedThenCached ==
    /\ ApiExactlyWithoutValidEntry
    /\ wikipedia.call.follows = "ok" =>
           /\ ~wikipedia.call.api
           /\ wikipedia.call.result = Summary(extract_article_title(wikipedia.call.url))
    /\ wikipedia.call.follows \in {"torn", "failed"} => wikipedia.call.api

\* an entry expired, the fetch wrote a new one, and the call right after it
\* was served from the cache
C26_Witness ==
    /\ wikipedia.call.follows = "ok"
    /\ ~wikipedia.call.api
    /\ wikipedia.call.result.kind = "summary"
    /\ wikipedia.call.at >= CacheDuration
    /\ wikipedia.call.before.mtime = wikipedia.call.at

\* C27: generate_image runs the subprocess exactly when the file
\* '<date>.<format>' is not in the image cache; when it returns, it returns
\* the path of a file that exists; a path it has returned stays in the
\* cache until clear_cache removes it, and a later call for it returns the
\* same path without the subprocess; get_cached_image_path returns the
\* path exactly when the file exists.
C27_ImageCache ==
    /\ images.good \subseteq images.files
    /\ images.call.op = "generate_image" =>
           /\ images.call.ran <=> ~images.call.had
           /\ IF images.call.raised THEN images.call.result = <<>>
              ELSE /\ images.call.result = images.call.path
                   /\ images.call.path \in images.files
                   /\ images.call.path \in images.good
           /\ images.call.known =>
                  /\ ~images.call.ran /\ ~images.call.raised
                  /\ images.call.result = images.call.path
    /\ images.call.op = "get_cached_image_path" =>
           /\ images.call.had <=> images.call.path \in images.files
           /\ images.call.result = IF images.call.had THEN images.call.path ELSE <<>>

\* a call is served the BMP of 5 January that an earlier call generated,
\* while the cache holds no PNG
C27_Witness ==
    /\ images.call.op = "generate_image"
    /\ images.call.known /\ ~images.call.ran
    /\ images.call.result = <<"2", "0", "2", "4", "-", "0", "1", "-", "0", "5", ".", "bmp">>
    /\ \A f \in images.files : f[Len(f)] = "bmp"

\* the digits of the configured voltage: of the default -2.51 when none is
\* configured, none for the empty string
ConfiguredDigits ==
    IF run.config.vcom.kind = "absent" THEN <<"2", "5", "1">>
    ELSE IF run.config.vcom.kind = "str" THEN <<>>
    ELSE StrOf(run.config.vcom.whole) \o run.config.vcom.frac

\* C28 (as claimed): the VCOM argument of the epdraw command is the digits
\* of the configured voltage, without sign and without decimal point:
\* '251' for -2.51, for the default, and for an empty setting.
C28_VcomDigitsOnly ==
    run.at = "returned" =>
        /\ Len(run.argv) = 5
        /\ run.argv[4] = IF ConfiguredDigits = <<>> THEN <<"2", "5", "1">>
                         ELSE ConfiguredDigits

\* C29 (as claimed): of two overlapping get_reflection calls for one date
\* that no call has cached yet, at most one calls the LLM; and whenever no
\* call is under way, tokens_used is the sum of the total_tokens of the
\* LLM responses received.
C29_OneLlmCallNoLostUpdate ==
    /\ \A t \in Threads : \A u \in Threads \ {t} :
           (/\ reflection.callers[t].at = "done"
            /\ reflection.callers[u].at = "done"
            /\ reflection.callers[t].date = reflection.callers[u].date
            /\ reflection.callers[u].beside
            /\ reflection.callers[t].known.kind = "none"
            /\ reflection.callers[u].known.kind = "none") =>
               ~(reflection.callers[t].called /\ reflection.callers[u].called)
    /\ (\A t \in Threads : reflection.callers[t].at \in {"idle", "done"}) =>
           reflection.tokens_used = reflection.billed

\* C30 (as claimed): the cache file of the title a get_summary call names
\* is the cache file of no other title, and a summary the call returns is
\* the summary of the article named in its URL.
C30_OwnSummaryOnly ==
    (wikipedia.call.made /\ extract_article_title(wikipedia.call.url) # <<>>) =>
        /\ \A t \in ArticleTitles \ {extract_article_title(wikipedia.call.url)} :
               get_cache_path(t) # get_cache_path(extract_article_title(wikipedia.call.url))
        /\ wikipedia.call.result.kind = "summary" =>
               wikipedia.call.result.title = extract_article_title(wikipedia.call.url)

====
